---- MODULE Spec2Model ----
(***************************************************************************)
(* Model of the asynchronous job-orchestration layer of the Strang video   *)
(* backend: JobManager and ConnectionManager (backend/utils/job_manager.py)*)
(* driven by the process-video pipeline and the WebSocket handler          *)
(* (backend/main.py) and the render-status poll loop                       *)
(* (backend/services/heygen_service.py).                                   *)
(*                                                                         *)
(* Everything runs on one asyncio event loop, so an action of the model is *)
(* the code a task executes between two suspension points (awaits).        *)
(* Strings are sequences of text chunks; Optional[str] is a set that is    *)
(* empty for None and holds the string otherwise.                          *)
(***************************************************************************)
EXTENDS Integers, Sequences, FiniteSets, TLC

VARIABLES
    jobs,                \* JobManager.jobs: job_id -> JobProgress
    results,             \* JobManager.results: job_id -> VideoResult
    tasks,               \* JobManager.tasks: job_id -> state of the run_job task
    pc,                  \* per job: the await the pipeline is suspended in
    polls,               \* per job: completed sleeps of wait_for_completion
    submit,              \* per job: the loop variable `attempt` of
                         \*   generate_avatar_video and the waits it has slept
    unstarted,           \* per job: broadcast tasks created but not yet run
    inflight,            \* broadcast tasks suspended in a send_json
    active_connections,  \* ConnectionManager.active_connections
    connection_jobs,     \* ConnectionManager.connection_jobs
    ws,                  \* per observer: position of its websocket_endpoint
    transport,           \* per observer: state of the client's connection
    hashOrder,           \* the WebSocket objects in the order of their hashes
    settings,            \* config.settings: the API keys of the process
    scriptCall,          \* history: the latest noted call of generate_script,
                         \*   the answers of the LLM it consumed, the waits
                         \*   it slept and how it ended
    job_func,            \* per job: the kind of callable start_job_async
                         \*   was given, a coroutine function or a plain one
    lastResponse,        \* history: status code of the latest answer of
                         \*   POST /api/process-video, 0 before the first
    lastRead,            \* history: the latest read of a record, by a
                         \*   getter of JobManager or by GET .../result,
                         \*   and what it returned
    snapshot,            \* history: per observer, the Progress Record its
                         \*   "connected" message was built from
    lost,                \* history: per job, the messages of the
                         \*   broadcasts that found no subscriber set
    pipelineOutcome,     \* history: how each job's pipeline ended
    leftTerminal,        \* history: a write took the job's status out of
                         \*   completed or failed
    resultWrites,        \* history: writes of the job's Result Record
    writeLog             \* history: per job, whether a write of
                         \*   progress_percent lowered it or left 0..100,
                         \*   and whether a write of status went against
                         \*   the order of the statuses

vars == <<jobs, results, tasks, pc, polls, submit, unstarted, inflight,
          active_connections, connection_jobs, ws, transport, hashOrder,
          settings, scriptCall, job_func, lastResponse, lastRead, snapshot,
          lost, pipelineOutcome, leftTerminal, resultWrites, writeLog>>

-----------------------------------------------------------------------------
(* Bounds of the model *)

MaxJobs == 2
NumObservers == 2
MaxPolls == 1
MaxInFlight == 1
MaxObservedRuns == 1
MaxInterleaved == 2

\* sleeps of wait_for_completion in the long-render specification: the
\* estimate min(95, ...) reaches its cap after 600 s = 120 sleeps of 5 s
MaxRenderPolls == 122

JobIds == 1..MaxJobs
Observers == 1..NumObservers

-----------------------------------------------------------------------------
(* Optional values and strings *)

NoneVal == {}
Some(s) == {s}
TheValue(opt) == CHOOSE s \in opt : TRUE

\* Python truthiness of an Optional[str]: None and "" are falsy
Truthy(opt) == opt # NoneVal /\ Len(TheValue(opt)) > 0

\* t occurs in s as a contiguous run of chunks
Contains(s, t) ==
    \E i \in 1..(Len(s) - Len(t) + 1) : SubSeq(s, i, i + Len(t) - 1) = t

\* Texts str(e) of the exceptions a stage can raise
ExcTexts == {<<>>, <<"vendor quota exceeded">>}

\* Exception classes the stages raise; all derive from Exception
ExceptionSubclasses == {"RuntimeError", "ValueError", "ValidationError"}

Exc(cls, text) == [cls |-> cls, text |-> text]

-----------------------------------------------------------------------------
(* JobStatus, JobProgress, VideoResult *)

JobStatus == {"queued", "processing", "scripting", "rendering",
              "completed", "failed"}

\* a record that already claims to be under way
NewJobProgressStarted(job_id) ==
    [job_id |-> job_id, status |-> "processing", progress_percent |-> 5,
     current_step |-> "starting",
     message |-> <<"Starting video generation...">>,
     error |-> NoneVal]

\* JobProgress as create_job builds it
NewJobProgress(job_id) ==
    [job_id |-> job_id, status |-> "queued", progress_percent |-> 0,
     current_step |-> "queued",
     message |-> <<"Job created, waiting to start...">>,
     error |-> NoneVal]

VideoResult(job_id, status, fields, error) ==
    [job_id |-> job_id, status |-> status,
     video_url |-> fields.video_url, thumbnail_url |-> fields.thumbnail_url,
     duration |-> fields.duration, script |-> fields.script,
     error |-> error]

\* VideoResult(...) validates its fields: duration is Optional[float], and a
\* value that is no number raises pydantic's ValidationError
NumericDurations == {Some("12.5")}

VideoResultValidates(fields) ==
    fields.duration = NoneVal \/ fields.duration \in NumericDurations

ValidationErrorText == <<"1 validation error for VideoResult">>

\* The defaults of set_result's keyword parameters
NoFields == [video_url |-> NoneVal, thumbnail_url |-> NoneVal,
             duration |-> NoneVal, script |-> NoneVal]

-----------------------------------------------------------------------------
(* ConnectionManager: the registry as a record [ac, cj] of its two dicts *)

Registry == [ac |-> active_connections, cj |-> connection_jobs]

\* dict without one key
Without(f, k) == [x \in DOMAIN f \ {k} |-> f[x]]

\* ConnectionManager.connect, after websocket.accept() has returned
connect(reg, websocket, job_id) ==
    LET ac1 == IF job_id \in DOMAIN reg.ac
               THEN reg.ac
               ELSE (job_id :> {}) @@ reg.ac
    IN [ac |-> [ac1 EXCEPT ![job_id] = @ \cup {websocket}],
        cj |-> (websocket :> job_id) @@ reg.cj]

\* a disconnect that empties the registry when it does not know the websocket
disconnect_or_reset(reg, websocket) ==
    IF websocket \in DOMAIN reg.cj
    THEN LET job_id == reg.cj[websocket]
             left == IF job_id \in DOMAIN reg.ac
                     THEN reg.ac[job_id] \ {websocket}
                     ELSE {}
         IN [ac |-> IF left = {}
                    THEN Without(reg.ac, job_id)
                    ELSE (job_id :> left) @@ reg.ac,
             cj |-> Without(reg.cj, websocket)]
    ELSE [ac |-> <<>>, cj |-> <<>>]

\* ConnectionManager.disconnect
disconnect(reg, websocket) ==
    IF websocket \in DOMAIN reg.cj
    THEN LET job_id == reg.cj[websocket]
             ac1 == IF job_id \in DOMAIN reg.ac
                    THEN LET left == reg.ac[job_id] \ {websocket}
                         IN IF left = {}
                            THEN Without(reg.ac, job_id)
                            ELSE [reg.ac EXCEPT ![job_id] = left]
                    ELSE reg.ac
         IN [ac |-> ac1, cj |-> Without(reg.cj, websocket)]
    ELSE reg

\* the cleanup loop of broadcast_to_job: disconnect every failed connection
RECURSIVE disconnectAll(_, _)
disconnectAll(reg, failed) ==
    IF failed = {}
    THEN reg
    ELSE LET c == CHOOSE x \in failed : TRUE
         IN disconnectAll(disconnect(reg, c), failed \ {c})

\* every registered connection, whatever job it watches
AllConnections(reg, job_id) == DOMAIN reg.cj

\* the connections broadcast_to_job iterates over
BroadcastTargets(reg, job_id) == reg.ac[job_id]

\* A set of WebSocket objects is iterated in the order of their hashes (their
\* addresses), which is arbitrary but the same for every iteration
HashOrders ==
    {p \in [1..NumObservers -> Observers] :
        \A i, j \in 1..NumObservers : i # j => p[i] # p[j]}

Rank(w) == CHOOSE i \in 1..NumObservers : hashOrder[i] = w

\* The element of the non-empty set S that an iteration yields first
FirstOf(S) == CHOOSE w \in S : \A v \in S : Rank(w) <= Rank(v)

-----------------------------------------------------------------------------
(* JobManager: operations on the record m of the stores they touch *)

Stores == [jobs |-> jobs, results |-> results, unstarted |-> unstarted,
           leftTerminal |-> leftTerminal, resultWrites |-> resultWrites,
           writeLog |-> writeLog]

TerminalStatuses == {"completed", "failed"}

\* the place of a status in queued, processing, scripting, rendering,
\* completed
StatusRank(status) ==
    CASE status = "queued" -> 0
      [] status = "processing" -> 1
      [] status = "scripting" -> 2
      [] status = "rendering" -> 3
      [] OTHER -> 4

\* a write that replaces status old by status new keeps it, or takes a
\* status that is not terminal to the next one or to failed
StatusMoveAllowed(old, new) ==
    \/ new = old
    \/ /\ old \notin TerminalStatuses
       /\ \/ new = "failed"
          \/ StatusRank(new) = StatusRank(old) + 1

\* jobs[job_id].status = status, noting a write that leaves a terminal status
\* and one that goes against the order
WriteStatus(m, job_id, status) ==
    [m EXCEPT !.jobs[job_id].status = status,
              !.leftTerminal[job_id] =
                  @ \/ (/\ m.jobs[job_id].status \in TerminalStatuses
                        /\ m.jobs[job_id].status # status),
              !.writeLog[job_id].backwards =
                  @ \/ ~StatusMoveAllowed(m.jobs[job_id].status, status)]

Max(S) == CHOOSE x \in S : \A y \in S : y <= x

\* the log of a job's percent writes after one that replaces old by new
NotePercent(log, old, new) ==
    [log EXCEPT !.dropped = @ \/ new < old,
                !.outside = @ \/ new \notin 0..100]

\* jobs[job_id].progress_percent = progress_percent, noted in the log
WritePercent(m, job_id, progress_percent) ==
    [m EXCEPT !.jobs[job_id].progress_percent = progress_percent,
              !.writeLog[job_id] =
                  NotePercent(@, m.jobs[job_id].progress_percent,
                              progress_percent)]

\* seq numbers of the job's broadcast tasks that have not ended yet
LiveSeqs(queue, job_id) ==
    {queue[i].seq : i \in DOMAIN queue}
        \cup {t.seq : t \in {u \in inflight : u.job = job_id}}

\* a task that is put in front of the ones already waiting for their turn
CreateBroadcastTaskFirst(m, job_id, message) ==
    [m EXCEPT !.unstarted[job_id] =
                  <<[seq |-> Max(LiveSeqs(@, job_id) \cup {0}) + 1,
                     msg |-> message]>> \o @]

\* asyncio.create_task(broadcast_to_job(job_id, message)): the task is queued
\* and runs later; seq orders the job's live broadcast tasks by creation
CreateBroadcastTask(m, job_id, message) ==
    [m EXCEPT !.unstarted[job_id] =
                  Append(@, [seq |-> Max(LiveSeqs(@, job_id) \cup {0}) + 1,
                             msg |-> message])]

ProgressMessage(job_id, status, progress_percent, current_step, message) ==
    [type |-> "progress", job_id |-> job_id, status |-> status,
     progress_percent |-> progress_percent, current_step |-> current_step,
     message |-> message]

\* an update_progress that makes the record when the job is unknown
update_progress_upsert(m, job_id, status, progress_percent, current_step, message) ==
    CreateBroadcastTask(
        [m EXCEPT !.jobs =
            (job_id :> [NewJobProgress(job_id) EXCEPT
                           !.status = status,
                           !.progress_percent = progress_percent,
                           !.current_step = current_step,
                           !.message = message]) @@ @],
        job_id,
        ProgressMessage(job_id, status, progress_percent, current_step,
                        message))

\* an update that writes the status and the percent into every record
update_progress_shared(m, job_id, status, progress_percent, current_step, message) ==
    IF job_id \in DOMAIN m.jobs
    THEN CreateBroadcastTask(
             [m EXCEPT !.jobs =
                 [k \in DOMAIN m.jobs |->
                     [m.jobs[k] EXCEPT !.status = status,
                                       !.progress_percent = progress_percent]]],
             job_id,
             ProgressMessage(job_id, status, progress_percent, current_step,
                             message))
    ELSE m

\* JobManager.update_progress
update_progress(m, job_id, status, progress_percent, current_step, message) ==
    IF job_id \in DOMAIN m.jobs
    THEN CreateBroadcastTask(
             [WritePercent(WriteStatus(m, job_id, status), job_id,
                           progress_percent) EXCEPT !.jobs[job_id] =
                 [@ EXCEPT !.current_step = current_step,
                           !.message = message]],
             job_id,
             ProgressMessage(job_id, status, progress_percent, current_step,
                             message))
    ELSE m

\* status = JobStatus.COMPLETED if not error else JobStatus.FAILED
TerminalStatus(error) == IF Truthy(error) THEN "failed" ELSE "completed"

\* a percent that ignores the outcome
TerminalPercentZero(error) == 0

\* 100 if not error else 0
TerminalPercent(error) == IF Truthy(error) THEN 0 ELSE 100

\* a terminal message that always announces completion
TerminalMessageComplete(job_id, status, fields, error) ==
    [type |-> "complete",
     job_id |-> job_id, status |-> status,
     video_url |-> fields.video_url, thumbnail_url |-> fields.thumbnail_url,
     duration |-> fields.duration, script |-> fields.script,
     error |-> error]

TerminalMessage(job_id, status, fields, error) ==
    [type |-> IF Truthy(error) THEN "error" ELSE "complete",
     job_id |-> job_id, status |-> status,
     video_url |-> fields.video_url, thumbnail_url |-> fields.thumbnail_url,
     duration |-> fields.duration, script |-> fields.script,
     error |-> error]

\* the percent alone, the error left out
SyncProgressNoError(rec, error) ==
    [rec EXCEPT !.progress_percent = TerminalPercent(error)]

\* the Progress Record after set_result has set its percent and error
SyncProgress(rec, error) ==
    [rec EXCEPT !.progress_percent = TerminalPercent(error),
                !.error = IF Truthy(error) THEN error ELSE @]

\* JobManager.set_result
set_result(m, job_id, fields, error) ==
    LET status == TerminalStatus(error)
        m1 == [m EXCEPT !.results =
                  (job_id :> VideoResult(job_id, status, fields, error)) @@ @,
                        !.resultWrites[job_id] = @ + 1]
        m2 == IF job_id \in DOMAIN m1.jobs
              THEN [WriteStatus(m1, job_id, status) EXCEPT
                       !.jobs[job_id] = SyncProgress(@, error),
                       !.writeLog[job_id] =
                           NotePercent(@, m1.jobs[job_id].progress_percent,
                               SyncProgress(m1.jobs[job_id], error)
                                   .progress_percent)]
              ELSE m1
    IN CreateBroadcastTask(m2, job_id,
                           TerminalMessage(job_id, status, fields, error))

\* a getter that answers for an unknown id with a record of its own making
get_job_progress_or_new(m, job_id) ==
    IF job_id \in DOMAIN m.jobs
    THEN Some(m.jobs[job_id])
    ELSE Some(NewJobProgress(job_id))

\* JobManager.get_job_progress: self.jobs.get(job_id)
get_job_progress(m, job_id) ==
    IF job_id \in DOMAIN m.jobs THEN Some(m.jobs[job_id]) ELSE NoneVal

\* JobManager.get_job_result: self.results.get(job_id)
get_job_result(m, job_id) ==
    IF job_id \in DOMAIN m.results THEN Some(m.results[job_id]) ELSE NoneVal

\* a sweep that drops the records of the jobs that are over
cleanup_old_jobs_sweep(m, max_age_hours) ==
    [m EXCEPT !.jobs =
        [j \in {k \in DOMAIN @ : @[k].status \notin TerminalStatuses} |-> @[j]]]

\* JobManager.cleanup_old_jobs: pass
cleanup_old_jobs(m, max_age_hours) == m

\* JobManager.create_job; uuid4 is modelled as the next unused id
create_job(m, job_id) ==
    [m EXCEPT !.jobs = (job_id :> NewJobProgress(job_id)) @@ @]

-----------------------------------------------------------------------------
(* The render stage: HeyGenService.get_video_status / wait_for_completion *)

HEYGEN_POLL_INTERVAL == 5

Min(a, b) == IF a < b THEN a ELSE b

VideoUrls == {NoneVal, Some(<<"http://x/y.mp4">>)}
VendorErrors == {NoneVal} \cup {Some(t) : t \in ExcTexts}

\* "duration" of the vendor's JSON, passed on as it comes: a number, or
\* something that is no number
Durations == NumericDurations \cup {Some("n/a")}

\* What one call of the status endpoint can come back with
PollResponses ==
    [kind : {"ok"}, status : {"completed"}, video_url : VideoUrls,
     duration : Durations, error : {NoneVal}]
    \cup [kind : {"ok"}, status : {"failed"}, video_url : {NoneVal},
          duration : {NoneVal}, error : VendorErrors]
    \cup [kind : {"ok"}, status : {"processing"}, video_url : {NoneVal},
          duration : {NoneVal}, error : {NoneVal}]
    \cup [kind : {"http_error", "request_error"}, status : {"none"},
          video_url : {NoneVal}, duration : {NoneVal}, error : {NoneVal}]

HeyGenVideoResult(status, video_url, duration, error) ==
    [status |-> status, video_url |-> video_url, thumbnail_url |-> NoneVal,
     duration |-> duration, error |-> error]

\* HeyGenService.get_video_status for a response that does not make it raise
get_video_status(resp) ==
    CASE resp.kind = "request_error" ->
            HeyGenVideoResult("failed", NoneVal, NoneVal,
                              Some(<<"Failed to check status: ", "error">>))
      [] resp.kind = "http_error" ->
            HeyGenVideoResult("failed", NoneVal, NoneVal,
                              Some(<<"API error: ", "status">>))
      [] OTHER ->
            HeyGenVideoResult(resp.status, resp.video_url, resp.duration,
                              resp.error)

\* HeyGenService._format_error_message on an Optional[str]
format_error_message(error) ==
    IF error = NoneVal THEN <<"None">> ELSE TheValue(error)

\* an estimate of what is left rather than of what is done
PollProgressRemaining(elapsed) == Max({0, 95 - (elapsed \div 10)})

\* progress_percent = min(95, 35 + int((elapsed / 600) * 60))
PollProgressPercent(elapsed) == Min(95, 35 + (elapsed \div 10))

\* rounding to the nearest integer instead of truncating
MapPercentRounded(percent) == 35 + ((percent * 6 + 5) \div 10)

\* the band's offset added to the unscaled percent
MapPercentUnscaled(percent) == 35 + percent

\* mapped_percent = 35 + int(percent * 0.6)
MapPercent(percent) == 35 + ((percent * 6) \div 10)

\* heygen_progress_callback of process_video_generation
heygen_progress_callback(m, job_id, percent, message) ==
    update_progress(m, job_id, "rendering", MapPercent(percent), "rendering",
                    message)

-----------------------------------------------------------------------------
(* process_video_generation and run_job *)

SCRIPT == <<"script">>

\* str(e) with no prefix
FormatJobErrorBare(text) == text

\* error_msg = f"Job failed: {str(e)}"
FormatJobError(text) == <<"Job failed: ">> \o text

\* f"Video generation failed: {str(e)}"
FormatPipelineError(text) == <<"Video generation failed: ">> \o text

\* except Exception, in process_video_generation
PipelineCatches(cls) == cls \in ExceptionSubclasses

\* except RuntimeError
RunJobCatchesRuntimeError(cls) == cls = "RuntimeError"

\* except Exception, in run_job
RunJobCatches(cls) == cls \in ExceptionSubclasses

\* What a run_job task has come to after a step: the stores, the pipeline's
\* next await (or "done"), the task's state and the pipeline's outcome
Step(m, next, task, outcome) ==
    [m |-> m, pc |-> next, task |-> task, outcome |-> outcome]

NoOutcome == [kind |-> "none"]

Continue(m, next) == Step(m, next, "running", NoOutcome)

\* a handler that only reports the failure as progress
RunJobExceptNoResult(m, job_id, e) ==
    update_progress(m, job_id, "failed", 0, "failed", FormatJobError(e.text))

\* run_job's handler: set_result(error=...) then update_progress(FAILED, ...)
RunJobExcept(m, job_id, e) ==
    LET error_msg == FormatJobError(e.text)
        m1 == set_result(m, job_id, NoFields, Some(error_msg))
    IN update_progress(m1, job_id, "failed", 0, "failed", error_msg)

\* The pipeline returns and run_job ends without a set_result
PipelineReturnsNoResult(m, job_id, fields) ==
    Step(m, "done", "finished", [kind |-> "returned", fields |-> fields])

\* The pipeline returns `fields`: run_job calls set_result(job_id, **result),
\* inside its try block; when VideoResult(...) raises there, nothing has been
\* stored yet and run_job's handler takes over
PipelineReturns(m, job_id, fields) ==
    LET outcome == [kind |-> "returned", fields |-> fields]
    IN IF VideoResultValidates(fields)
       THEN Step(set_result(m, job_id, fields, NoneVal), "done", "finished",
                 outcome)
       ELSE Step(RunJobExcept(m, job_id,
                              Exc("ValidationError", ValidationErrorText)),
                 "done", "finished", outcome)

\* The pipeline's handler records a result of its own before it re-raises
PipelineRaisesRecordsTwice(m, job_id, e) ==
    LET m1 == set_result(m, job_id, NoFields,
                         Some(FormatPipelineError(e.text)))
    IN Step(RunJobExcept(m1, job_id, e), "done", "finished",
            [kind |-> "raised", exc |-> e])

\* An exception e is raised inside the pipeline's try block: its handler
\* reports the failure and re-raises, then run_job's handler records it
PipelineRaises(m, job_id, e) ==
    LET m1 == IF PipelineCatches(e.cls)
              THEN update_progress(m, job_id, "failed", 0, "failed",
                                   FormatPipelineError(e.text))
              ELSE m
        outcome == [kind |-> "raised", exc |-> e]
    IN IF RunJobCatches(e.cls)
       THEN Step(RunJobExcept(m1, job_id, e), "done", "finished", outcome)
       ELSE Step(m1, "done", "crashed", outcome)

\* run_job up to the first await of the pipeline (generate_script)
RunJobStart(m, job_id) ==
    LET m1 == update_progress(m, job_id, "processing", 5, "starting",
                              <<"Starting video generation...">>)
        m2 == update_progress(m1, job_id, "scripting", 10, "scripting",
                              <<"Groq AI is writing your script...">>)
    IN Continue(m2, "script")

\* run_job with a job_func that is no coroutine function: up to the await of
\* loop.run_in_executor(None, job_func, job_id, ...)
RunJobStartSync(m, job_id) ==
    Continue(update_progress(m, job_id, "processing", 5, "starting",
                             <<"Starting video generation...">>),
             "executor")

\* asyncio.create_task called in a thread that runs no event loop
NoRunningLoop == Exc("RuntimeError", <<"no running event loop">>)

\* JobManager.update_progress called by a thread of the executor: the record
\* is written as on the loop, then asyncio.create_task raises, for a known
\* job; nothing happens for an unknown one
update_progress_in_thread(m, job_id, status, progress_percent, current_step, message) ==
    IF job_id \in DOMAIN m.jobs
    THEN [m |-> [update_progress(m, job_id, status, progress_percent,
                                 current_step, message)
                    EXCEPT !.unstarted = m.unstarted],
          raised |-> Some(NoRunningLoop)]
    ELSE [m |-> m, raised |-> NoneVal]

\* The future of run_in_executor is done and run_job resumes: with the
\* pipeline's return value it goes on to set_result, with its exception to
\* the handler
ExecutorJoined(m, job_id, outcome) ==
    IF outcome.kind = "returned"
    THEN PipelineReturns(m, job_id, outcome.fields)
    ELSE IF RunJobCatches(outcome.exc.cls)
         THEN Step(RunJobExcept(m, job_id, outcome.exc), "done", "finished",
                   outcome)
         ELSE Step(m, "done", "crashed", outcome)

\* generate_script has returned: up to the await of generate_image_prompts
AfterScript(m, job_id) ==
    Continue(update_progress(m, job_id, "scripting", 20, "scripting",
                             <<"Generating visual element prompts...">>),
             "prompts")

\* generate_image_prompts has returned: scene parsing, the duration check
\* (truncate says whether the script had to be cut), up to the await of
\* generate_avatar_video
AfterPrompts(m, job_id, truncate) ==
    LET m1 == IF truncate
              THEN update_progress(m, job_id, "scripting", 25, "scripting",
                                   <<"Truncating script to fit limit...">>)
              ELSE m
        m2 == update_progress(m1, job_id, "scripting", 30, "scripting",
                              <<"Script generation complete!">>)
        m3 == update_progress(m2, job_id, "rendering", 35, "rendering",
                              <<"HeyGen is rendering your avatar video...">>)
    IN Continue(m3, "submit")

\* a loop that gives up after ten minutes and returns the status it has
AfterPollGivesUp(m, job_id, result, elapsed) ==
    CASE result.status = "completed" ->
            LET m1 == heygen_progress_callback(m, job_id, 100,
                          <<"Video rendering complete!">>)
                m2 == update_progress(m1, job_id, "completed", 100,
                          "completed", <<"Video generation complete!">>)
            IN PipelineReturns(m2, job_id,
                   [video_url |-> result.video_url,
                    thumbnail_url |-> result.thumbnail_url,
                    duration |-> result.duration,
                    script |-> Some(SCRIPT)])
      [] result.status = "failed" ->
            LET formatted_error == format_error_message(result.error)
                m1 == heygen_progress_callback(m, job_id, 0,
                          <<"Video failed: ">> \o formatted_error)
                text == IF Len(formatted_error) > 0
                        THEN formatted_error
                        ELSE <<"HeyGen video generation failed">>
            IN PipelineRaises(m1, job_id, Exc("RuntimeError", text))
      [] elapsed >= 600 ->
            PipelineRaises(m, job_id,
                Exc("RuntimeError", <<"HeyGen video generation failed">>))
      [] OTHER ->
            Continue(heygen_progress_callback(m, job_id,
                         PollProgressPercent(elapsed),
                         <<"HeyGen is rendering your avatar video...">>),
                     "poll")

\* One turn of wait_for_completion's loop on the status `result`, then the
\* rest of the pipeline when the loop returns
AfterPoll(m, job_id, result, elapsed) ==
    CASE result.status = "completed" ->
            LET m1 == heygen_progress_callback(m, job_id, 100,
                          <<"Video rendering complete!">>)
                m2 == update_progress(m1, job_id, "completed", 100,
                          "completed", <<"Video generation complete!">>)
            IN PipelineReturns(m2, job_id,
                   [video_url |-> result.video_url,
                    thumbnail_url |-> result.thumbnail_url,
                    duration |-> result.duration,
                    script |-> Some(SCRIPT)])
      [] result.status = "failed" ->
            LET formatted_error == format_error_message(result.error)
                m1 == heygen_progress_callback(m, job_id, 0,
                          <<"Video failed: ">> \o formatted_error)
                text == IF Len(formatted_error) > 0
                        THEN formatted_error
                        ELSE <<"HeyGen video generation failed">>
            IN PipelineRaises(m1, job_id, Exc("RuntimeError", text))
      [] OTHER ->
            Continue(heygen_progress_callback(m, job_id,
                         PollProgressPercent(elapsed),
                         <<"HeyGen is rendering your avatar video...">>),
                     "poll")

-----------------------------------------------------------------------------
(* GET /job/{job_id}/result *)

\* raise HTTPException(status_code=code, detail=detail)
HTTPException(code, detail) == [code |-> code, detail |-> detail]

\* a handler for which a missing Result Record always means "not found"
get_job_result_endpoint_strict(m, job_id) ==
    LET result == get_job_result(m, job_id)
    IN IF result = NoneVal
       THEN HTTPException(404, <<"Job not found">>)
       ELSE [code |-> 200, detail |-> TheValue(result)]

\* The handler get_job_result of main.py: the Result Record, or 202 while a
\* Progress Record that is not completed exists, or 404
get_job_result_endpoint(m, job_id) ==
    LET result == get_job_result(m, job_id)
        progress == get_job_progress(m, job_id)
    IN IF result = NoneVal
       THEN IF progress # NoneVal /\ TheValue(progress).status # "completed"
            THEN HTTPException(202, <<"Job still processing">>)
            ELSE HTTPException(404, <<"Job not found">>)
       ELSE [code |-> 200, detail |-> TheValue(result)]

\* no read yet
NoRead == [op |-> "none", job_id |-> 0, value |-> NoneVal]

-----------------------------------------------------------------------------
(* POST /api/process-video *)

\* an API key of Settings: "" unless the environment sets it
ApiKeys == {<<>>, <<"key">>}

Settings == [GROQ_API_KEY : ApiKeys, HEYGEN_API_KEY : ApiKeys]

\* run_job's code up to its first await, run before the caller goes on
start_job_inline(m, job_id) == RunJobStart(m, job_id)

\* JobManager.start_job_async: the run_job task is created and stored in
\* self.tasks; it has its first turn after the caller has suspended
start_job_async(m, job_id) == Step(m, "scheduled", "pending", NoOutcome)

\* raise HTTPException(status_code=500, detail=detail)
HTTPException500(m, detail) ==
    [code |-> 500, detail |-> detail, created |-> FALSE,
     step |-> Step(m, "absent", "none", NoOutcome)]

\* the job is created and started, whatever the keys
process_video_unchecked(cfg, m, job_id) ==
    [code |-> 200, detail |-> <<"Video generation started.">>,
     created |-> TRUE,
     step |-> start_job_async(create_job(m, job_id), job_id)]

\* process_video: the answer, and the stores and the task it leaves
process_video(cfg, m, job_id) ==
    IF Len(cfg.GROQ_API_KEY) = 0
    THEN HTTPException500(m, <<"GROQ_API_KEY not configured">>)
    ELSE IF Len(cfg.HEYGEN_API_KEY) = 0
         THEN HTTPException500(m, <<"HEYGEN_API_KEY not configured">>)
         ELSE [code |-> 200, detail |-> <<"Video generation started.">>,
               created |-> TRUE,
               step |-> start_job_async(create_job(m, job_id), job_id)]

-----------------------------------------------------------------------------
(* HeyGenService.generate_avatar_video: the submission of the render *)

max_retries == 3

\* Python list, indexed from 0 in the source and from 1 here
retry_delays == <<2, 5, 10>>

\* What one POST of the generation request can end in. Of the 200 responses,
\* "api_error" carries an error object, "error_not_dict" an error that is a
\* text (error_data.get raises AttributeError), "no_video_id" a data object
\* without video_id, and "data_null" has "data": null (None.get raises
\* AttributeError)
SubmitResponses ==
    {"video_id", "api_error", "error_not_dict", "no_video_id", "data_null",
     "401", "404", "429", "other_status", "timeout", "request_error",
     "exception"}

\* The 200 responses whose handling raises something other than RuntimeError,
\* which `except Exception` catches
BodyFaults == {"error_not_dict", "data_null"}

\* The responses the loop answers with another attempt
TransientResponses ==
    {"429", "other_status", "timeout", "request_error", "exception"}
      \cup BodyFaults

\* before the first iteration of the loop
NoSubmission == [attempt |-> 0, slept |-> <<>>, retried |-> {}]

\* a loop that sleeps and submits again whatever the attempt
submit_attempt_unbounded(attempt, response) ==
    CASE response = "video_id" -> [act |-> "return", wait_time |-> 0]
      [] response \in TransientResponses ->
            [act |-> "sleep",
             wait_time |-> retry_delays[IF attempt + 1 \in DOMAIN retry_delays
                                        THEN attempt + 1
                                        ELSE Len(retry_delays)]]
      [] OTHER -> [act |-> "raise", wait_time |-> 0]

\* One iteration of `for attempt in range(max_retries)`
submit_attempt(attempt, response) ==
    CASE response = "video_id" -> [act |-> "return", wait_time |-> 0]
      [] response \in TransientResponses /\ attempt < max_retries - 1 ->
            [act |-> "sleep", wait_time |-> retry_delays[attempt + 1]]
      [] OTHER -> [act |-> "raise", wait_time |-> 0]

-----------------------------------------------------------------------------
(* GroqService.generate_script: the retry loop around the LLM call *)

script_max_retries == 3

script_retry_delays == <<2, 5, 10>>

\* What one call of chat.completions.create can end in: a script, a script
\* that is empty once stripped, or an exception of the SDK (rate limit 429,
\* rejected API key 401, failed connection, status 500)
LlmAnswers ==
    {"script", "empty_script", "rate_limit", "authentication", "connection",
     "server_error"}

\* type(e).__name__ of the exception that reaches `except Exception`
RaisedClass(answer) ==
    CASE answer = "empty_script" -> "ValueError"
      [] answer = "rate_limit" -> "RateLimitError"
      [] answer = "authentication" -> "AuthenticationError"
      [] answer = "connection" -> "APIConnectionError"
      [] answer = "server_error" -> "InternalServerError"

\* Which of the texts the handler searches for occur in str(e).lower()
error_str(answer) ==
    CASE answer = "rate_limit" -> {"429", "rate limit"}
      [] answer = "authentication" -> {"401", "api key"}
      [] OTHER -> {}

\* The classes for which isinstance(e, APIError) holds: APIError is the base
\* class of every exception the SDK raises for a request
APIErrorClasses ==
    {"APIError", "RateLimitError", "AuthenticationError",
     "APIConnectionError", "InternalServerError"}

\* `if attempt < max_retries - 1: time.sleep(...); continue / else: raise`
RetryOrRaise(attempt) ==
    IF attempt < script_max_retries - 1
    THEN [act |-> "sleep", wait_time |-> script_retry_delays[attempt + 1]]
    ELSE [act |-> "raise", wait_time |-> 0]

\* One iteration of `for attempt in range(max_retries)`
script_attempt(attempt, answer) ==
    IF answer = "script"
    THEN [act |-> "return", wait_time |-> 0]
    ELSE CASE \/ "rate limit" \in error_str(answer)
              \/ "429" \in error_str(answer)
              \/ RaisedClass(answer) = "RateLimitError" ->
                    RetryOrRaise(attempt)
           [] \/ "401" \in error_str(answer)
              \/ "unauthorized" \in error_str(answer)
              \/ "api key" \in error_str(answer)
              \/ RaisedClass(answer) \in APIErrorClasses ->
                    [act |-> "raise", wait_time |-> 0]
           [] OTHER -> RetryOrRaise(attempt)

RECURSIVE script_loop(_, _, _)
\* The loop from iteration `attempt` on, answers[k] being the LLM's answer to
\* the k-th call
script_loop(answers, attempt, slept) ==
    IF attempt >= script_max_retries
    THEN [ended |-> "raise", answers |-> answers, slept |-> slept]
    ELSE LET r == script_attempt(attempt, answers[attempt + 1])
         IN IF r.act = "sleep"
            THEN script_loop(answers, attempt + 1, Append(slept, r.wait_time))
            ELSE [ended |-> r.act,
                  answers |-> SubSeq(answers, 1, attempt + 1),
                  slept |-> slept]

\* generate_script: how the call ends, the answers of the calls it made, and
\* the waits it slept between them
generate_script(answers) == script_loop(answers, 0, <<>>)

\* before any noted call
NoCall == [ended |-> "none", answers |-> <<>>, slept |-> <<>>]

-----------------------------------------------------------------------------
(* Initial state: freshly constructed JobManager, no request served yet *)

Init ==
    /\ jobs = <<>>
    /\ results = <<>>
    /\ tasks = <<>>
    /\ pc = [j \in JobIds |-> "absent"]
    /\ polls = [j \in JobIds |-> 0]
    /\ submit = [j \in JobIds |-> NoSubmission]
    /\ unstarted = [j \in JobIds |-> <<>>]
    /\ inflight = {}
    /\ active_connections = <<>>
    /\ connection_jobs = <<>>
    /\ ws = [w \in Observers |-> [state |-> "new", job |-> 0]]
    /\ transport = [w \in Observers |-> "open"]
    /\ hashOrder \in HashOrders
    /\ settings \in Settings
    /\ scriptCall = NoCall
    /\ job_func = [j \in JobIds |-> "coroutine"]
    /\ lastResponse = 0
    /\ lastRead = NoRead
    /\ snapshot = [w \in Observers |-> NoneVal]
    /\ lost = [j \in JobIds |-> {}]
    /\ pipelineOutcome = [j \in JobIds |-> NoOutcome]
    /\ leftTerminal = [j \in JobIds |-> FALSE]
    /\ resultWrites = [j \in JobIds |-> 0]
    /\ writeLog = [j \in JobIds |-> [dropped |-> FALSE, outside |-> FALSE,
                                      backwards |-> FALSE]]

envVars == <<hashOrder, settings, scriptCall, job_func, lastResponse, lastRead,
            snapshot, lost>>
registryVars == <<active_connections, connection_jobs, ws, transport>>
jobVars == <<jobs, results, tasks, pc, polls, submit, pipelineOutcome, leftTerminal,
             resultWrites, writeLog>>

-----------------------------------------------------------------------------
(* Request handler and the run_job task of each job *)

\* The effect of the answer r of process_video on the state; job_id is the id
\* uuid4 would give
ServeProcessVideo(r, job_id) ==
    /\ jobs' = r.step.m.jobs
    /\ results' = r.step.m.results
    /\ unstarted' = r.step.m.unstarted
    /\ leftTerminal' = r.step.m.leftTerminal
    /\ resultWrites' = r.step.m.resultWrites
    /\ writeLog' = r.step.m.writeLog
    /\ tasks' = IF r.created THEN (job_id :> r.step.task) @@ tasks ELSE tasks
    /\ pc' = IF r.created THEN [pc EXCEPT ![job_id] = r.step.pc] ELSE pc
    /\ pipelineOutcome' =
          IF r.created
          THEN [pipelineOutcome EXCEPT ![job_id] = r.step.outcome]
          ELSE pipelineOutcome
    /\ lastResponse' = r.code
    /\ UNCHANGED <<polls, submit>>
    /\ UNCHANGED <<hashOrder, settings, scriptCall, job_func, lastRead, snapshot, lost,
                   registryVars,
                   inflight>>

NextJobId == Cardinality(DOMAIN jobs) + 1

\* POST /api/process-video answered with the job id: create_job, then
\* start_job_async, then the response; no await in between
ProcessVideo ==
    /\ NextJobId \in JobIds
    /\ LET r == process_video(settings, Stores, NextJobId)
       IN r.code = 200 /\ ServeProcessVideo(r, NextJobId)

\* POST /api/process-video answered with HTTPException(500)
ProcessVideoRejected ==
    LET r == process_video(settings, Stores, NextJobId)
    IN r.code = 500 /\ ServeProcessVideo(r, NextJobId)

\* The run_job task of job_id takes the step `step`; elapsed is the local
\* counter of wait_for_completion, in polls, and lives while the loop runs
Commits(job_id, step, elapsed) ==
    /\ jobs' = step.m.jobs
    /\ results' = step.m.results
    /\ unstarted' = step.m.unstarted
    /\ pc' = [pc EXCEPT ![job_id] = step.pc]
    /\ tasks' = [tasks EXCEPT ![job_id] = step.task]
    /\ pipelineOutcome' = [pipelineOutcome EXCEPT ![job_id] = step.outcome]
    /\ leftTerminal' = step.m.leftTerminal
    /\ resultWrites' = step.m.resultWrites
    /\ writeLog' = step.m.writeLog
    /\ polls' = [polls EXCEPT ![job_id] =
                    IF step.pc = "poll" THEN elapsed ELSE 0]
    /\ submit' = [submit EXCEPT ![job_id] = NoSubmission]

Commit(job_id, step, elapsed) ==
    /\ Commits(job_id, step, elapsed)
    /\ UNCHANGED <<envVars, registryVars, inflight>>

\* The event loop runs callbacks in FIFO order: the broadcast tasks a job
\* created before an await have begun when that await resumes
Resumes(job_id, at) == pc[job_id] = at /\ unstarted[job_id] = <<>>

\* The event loop gives the task its first turn
RunJobBegin(job_id) ==
    /\ pc[job_id] = "scheduled"
    /\ Commit(job_id,
              IF job_func[job_id] = "coroutine"
              THEN RunJobStart(Stores, job_id)
              ELSE RunJobStartSync(Stores, job_id),
              0)

\* await asyncio.to_thread(groq.generate_script, ...) ends: the whole retry
\* loop, its time.sleep included, runs in the worker thread, and the pipeline
\* resumes with the script or with the RuntimeError
ScriptEnds(job_id, ended, noted) ==
    /\ Resumes(job_id, "script")
    /\ IF noted
       THEN \E answers \in [1 .. script_max_retries -> LlmAnswers] :
               /\ generate_script(answers).ended = ended
               /\ scriptCall' = generate_script(answers)
       ELSE /\ \E answers \in [1 .. script_max_retries -> LlmAnswers] :
                  generate_script(answers).ended = ended
            /\ UNCHANGED scriptCall
    /\ IF ended = "return"
       THEN Commits(job_id, AfterScript(Stores, job_id), 0)
       ELSE \E text \in ExcTexts :
               Commits(job_id,
                       PipelineRaises(Stores, job_id,
                                      Exc("RuntimeError", text)), 0)
    /\ UNCHANGED <<hashOrder, settings, job_func, lastResponse, lastRead,
                   snapshot, lost, registryVars, inflight>>

\* await asyncio.to_thread(groq.generate_script, ...) returns a script
ScriptReturns(job_id) == ScriptEnds(job_id, "return", FALSE)

\* ... or raises RuntimeError
ScriptRaises(job_id) == ScriptEnds(job_id, "raise", FALSE)

\* the same, the call being noted
ScriptReturnsNoted(job_id) == ScriptEnds(job_id, "return", TRUE)

ScriptRaisesNoted(job_id) == ScriptEnds(job_id, "raise", TRUE)

\* await asyncio.to_thread(groq.generate_image_prompts, ...) returns
PromptsReturn(job_id) ==
    /\ Resumes(job_id, "prompts")
    /\ \E truncate \in BOOLEAN :
          Commit(job_id, AfterPrompts(Stores, job_id, truncate), 0)

\* await heygen.generate_avatar_video(...) returns a video id: the pipeline
\* enters wait_for_completion and awaits the first status poll
SubmitReturns(job_id) ==
    /\ Resumes(job_id, "submit")
    /\ \E response \in SubmitResponses :
          submit_attempt(submit[job_id].attempt, response).act = "return"
    /\ Commit(job_id, Continue(Stores, "poll"), 0)

\* ... or raises RuntimeError
SubmitRaises(job_id) ==
    /\ Resumes(job_id, "submit")
    /\ \E response \in SubmitResponses :
          submit_attempt(submit[job_id].attempt, response).act = "raise"
    /\ \E text \in ExcTexts :
          Commit(job_id,
                 PipelineRaises(Stores, job_id, Exc("RuntimeError", text)), 0)

\* ... or sleeps retry_delays[attempt] and submits again: the pipeline stays
\* in the same await of generate_avatar_video
SubmitSleeps(job_id, noted) ==
    /\ Resumes(job_id, "submit")
    /\ \E response \in SubmitResponses :
          LET r == submit_attempt(submit[job_id].attempt, response)
          IN /\ r.act = "sleep"
             /\ submit' = [submit EXCEPT ![job_id] =
                              [attempt |-> @.attempt + 1,
                               slept |-> Append(@.slept, r.wait_time),
                               retried |-> IF noted
                                           THEN @.retried \cup {response}
                                           ELSE @.retried]]
    /\ UNCHANGED <<jobs, results, tasks, pc, polls, pipelineOutcome,
                   leftTerminal, resultWrites, writeLog, unstarted>>
    /\ UNCHANGED <<envVars, registryVars, inflight>>

SubmitRetries(job_id) == SubmitSleeps(job_id, FALSE)

\* the same, the responses slept through being noted
SubmitRetriesNoted(job_id) == SubmitSleeps(job_id, TRUE)

\* await self.get_video_status(video_id) returns; a poll that finds the render
\* still running is followed by asyncio.sleep(poll_interval) and the next poll
\* (the render is reported over after `limit` sleeps at the latest)
PollReturnsWithin(job_id, limit) ==
    /\ Resumes(job_id, "poll")
    /\ \E resp \in PollResponses :
          LET result == get_video_status(resp)
              running == result.status \notin {"completed", "failed"}
          IN /\ running => polls[job_id] < limit
             /\ Commit(job_id,
                       AfterPoll(Stores, job_id, result,
                                 polls[job_id] * HEYGEN_POLL_INTERVAL),
                       polls[job_id] + 1)

PollReturns(job_id) == PollReturnsWithin(job_id, MaxPolls)

PollReturnsLate(job_id) == PollReturnsWithin(job_id, MaxRenderPolls)

\* ... or raises something get_video_status does not catch (a malformed body)
PollRaises(job_id) ==
    /\ Resumes(job_id, "poll")
    /\ \E text \in ExcTexts :
          Commit(job_id,
                 PipelineRaises(Stores, job_id, Exc("ValueError", text)), 0)

-----------------------------------------------------------------------------
(* Broadcast tasks: ConnectionManager.broadcast_to_job *)

SetOf(reg, job_id) == IF job_id \in DOMAIN reg.ac THEN reg.ac[job_id] ELSE {}

Touched(reg1, reg2, job_id) == SetOf(reg1, job_id) # SetOf(reg2, job_id)

\* A change of the registry from reg1 to reg2, as the iterators of the
\* suspended broadcasts see it: the set they walk was modified, or emptied
\* and removed from the dict (a later connect builds a new set object)
MarkInflight(inf, reg1, reg2) ==
    { IF Touched(reg1, reg2, t.job)
      THEN [t EXCEPT !.modified = TRUE,
                     !.dropped = @ \/ t.job \notin DOMAIN reg2.ac]
      ELSE t : t \in inf }

\* The registry goes from its current value to reg2
SetRegistry(reg2, inf) ==
    /\ active_connections' = reg2.ac
    /\ connection_jobs' = reg2.cj
    /\ inflight' = MarkInflight(inf, Registry, reg2)

NoneSent == [w \in Observers |-> 0]

\* The job has no subscriber set: the queued broadcast tasks of the job,
\* which the loop runs back to back, each return at once
\* The messages of the broadcast tasks in `queue`
MessagesOf(queue) == {queue[i].msg : i \in DOMAIN queue}

\* a broadcast that keeps its message for the subscribers to come
BroadcastWaits(job_id, noted) ==
    /\ unstarted[job_id] # <<>>
    /\ job_id \notin DOMAIN active_connections
    /\ MessagesOf(unstarted[job_id]) \ lost[job_id] # {}
    /\ lost' = [lost EXCEPT ![job_id] = @ \cup MessagesOf(unstarted[job_id])]
    /\ UNCHANGED <<hashOrder, settings, scriptCall, job_func, lastResponse, lastRead,
                   snapshot, unstarted,
                   jobVars, registryVars, inflight>>

\* if job_id not in self.active_connections: return. `noted` says whether
\* the history variable lost takes note of the messages
BroadcastReturnsAtOnce(job_id, noted) ==
    /\ unstarted[job_id] # <<>>
    /\ job_id \notin DOMAIN active_connections
    /\ unstarted' = [unstarted EXCEPT ![job_id] = <<>>]
    /\ lost' = IF noted
               THEN [lost EXCEPT ![job_id] =
                        @ \cup MessagesOf(unstarted[job_id])]
               ELSE lost
    /\ UNCHANGED <<hashOrder, settings, scriptCall, job_func, lastResponse, lastRead,
                   snapshot, jobVars,
                   registryVars, inflight>>

BroadcastNoSubscribers(job_id) == BroadcastReturnsAtOnce(job_id, FALSE)

BroadcastNoSubscribersNoted(job_id) == BroadcastReturnsAtOnce(job_id, TRUE)

\* Sends on one WebSocket return in the order in which they were called:
\* the place of a new send to c behind the sends to c that are pending
SendTurn(inf, c) == Max({u.turn : u \in {v \in inf : v.cur = c}} \cup {0}) + 1

\* The pending send of t is the oldest one pending on its WebSocket
SendReturns(t) == \A u \in inflight : u.cur = t.cur => u.turn >= t.turn

\* A queued broadcast task gets its first turn: it starts iterating over the
\* job's subscriber set and suspends in the first send_json; at most `limit`
\* broadcast tasks are suspended at a time
BroadcastBegin(job_id, limit) ==
    /\ unstarted[job_id] # <<>>
    /\ job_id \in DOMAIN active_connections
    /\ Cardinality(inflight) < limit
    /\ LET h == Head(unstarted[job_id])
       IN \E c \in {FirstOf(BroadcastTargets(Registry, job_id))} :
             inflight' = inflight \cup
                {[job |-> job_id, seq |-> h.seq, msg |-> h.msg,
                  start |-> active_connections[job_id],
                  used |-> Cardinality(active_connections[job_id]),
                  modified |-> FALSE, dropped |-> FALSE,
                  seen |-> {c}, n |-> 1, cur |-> c,
                  turn |-> SendTurn(inflight, c),
                  sent |-> NoneSent, failed |-> {}]}
    /\ unstarted' = [unstarted EXCEPT ![job_id] = Tail(@)]
    /\ UNCHANGED <<envVars, jobVars, registryVars>>

BroadcastStart(job_id) == BroadcastBegin(job_id, MaxInFlight)

BroadcastStartInterleaved(job_id) == BroadcastBegin(job_id, MaxInterleaved)

\* send_json to t.cur is over: delivered, or raised because the client is gone
AfterSend(t) ==
    IF transport[t.cur] = "open"
    THEN [t EXCEPT !.sent[t.cur] = @ + 1]
    ELSE [t EXCEPT !.failed = @ \cup {t.cur}]

\* The set iterator raises RuntimeError when the set's size is not the one it
\* started with
IteratorRaises(t) ==
    IF t.dropped
    THEN TRUE
    ELSE Cardinality(active_connections[t.job]) # t.used

\* What the iterator may yield next: the first of the unvisited connections;
\* over a set that was modified (at equal size) the order is undefined, so
\* any connection, or none
NextTargets(t) ==
    IF t.modified
    THEN IF t.n < t.used THEN BroadcastTargets(Registry, t.job) ELSE {}
    ELSE LET unvisited == BroadcastTargets(Registry, t.job) \ t.seen
         IN IF unvisited = {} THEN {} ELSE {FirstOf(unvisited)}

IteratorMayStop(t) == t.modified \/ NextTargets(t) = {}

\* A send completes and the loop goes on to the next connection
BroadcastSendNext(t) ==
    /\ t \in inflight
    /\ SendReturns(t)
    /\ ~IteratorRaises(t)
    /\ \E c \in NextTargets(t) :
          inflight' = (inflight \ {t}) \cup
              {[AfterSend(t) EXCEPT !.seen = @ \cup {c}, !.n = @ + 1,
                                    !.cur = c,
                                    !.turn = SendTurn(inflight \ {t}, c)]}
    /\ UNCHANGED <<envVars, jobVars, unstarted, registryVars>>

\* A send completes, the loop is over, the failed connections are
\* disconnected and the task ends
BroadcastFinish(t) ==
    /\ t \in inflight
    /\ SendReturns(t)
    /\ ~IteratorRaises(t)
    /\ IteratorMayStop(t)
    /\ SetRegistry(disconnectAll(Registry, AfterSend(t).failed),
                   inflight \ {t})
    /\ UNCHANGED <<envVars, jobVars, unstarted, ws, transport>>

\* A send completes and the iterator raises: the task dies with RuntimeError
\* before its cleanup loop
BroadcastCrash(t) ==
    /\ t \in inflight
    /\ SendReturns(t)
    /\ IteratorRaises(t)
    /\ inflight' = inflight \ {t}
    /\ UNCHANGED <<envVars, jobVars, unstarted, registryVars>>

-----------------------------------------------------------------------------
(* websocket_endpoint, one handler per observer *)

\* A client opens /ws/job/{job_id}: the handler looks the job up and closes
\* the socket when it is unknown; else it awaits websocket.accept() inside
\* connect, which registers the observer, and then awaits the send of the
\* "connected" snapshot. When accept() raises (the client has gone) the
\* handler ends unregistered. Nothing the handler does depends on what
\* happens while accept() is pending, so the await is not a state of its own.
\* The "connected" message is built from the JobProgress object the handler
\* looked up, as that object is when connect has returned; `noted` says
\* whether the history variable snapshot takes note of it
WsAccepts(w, job_id, accepted, noted) ==
    /\ ws[w].state = "new"
    /\ \A v \in Observers : v < w => ws[v].state # "new"
    /\ IF job_id \in DOMAIN jobs /\ accepted
       THEN /\ SetRegistry(connect(Registry, w, job_id), inflight)
            /\ ws' = [ws EXCEPT ![w] = [state |-> "snapshot", job |-> job_id]]
            /\ snapshot' = IF noted
                           THEN [snapshot EXCEPT ![w] = Some(jobs[job_id])]
                           ELSE snapshot
       ELSE /\ ws' = [ws EXCEPT ![w] = [state |-> "done", job |-> job_id]]
            /\ UNCHANGED <<active_connections, connection_jobs, inflight,
                           snapshot>>
    /\ UNCHANGED <<hashOrder, settings, scriptCall, job_func, lastResponse, lastRead, lost,
                   jobVars, unstarted, transport>>

WsOpen(w, job_id, accepted) == WsAccepts(w, job_id, accepted, FALSE)

WsOpenNoted(w, job_id, accepted) == WsAccepts(w, job_id, accepted, TRUE)

\* The snapshot is sent and the handler awaits receive_text
WsSnapshotSent(w) ==
    /\ ws[w].state = "snapshot"
    /\ transport[w] = "open"
    /\ ws' = [ws EXCEPT ![w].state = "receiving"]
    /\ UNCHANGED <<envVars, jobVars, unstarted, inflight, active_connections,
                   connection_jobs, transport>>

\* The client goes away
WsClientCloses(w) ==
    /\ ws[w].state \in {"snapshot", "receiving"}
    /\ transport[w] = "open"
    /\ transport' = [transport EXCEPT ![w] = "closed"]
    /\ UNCHANGED <<envVars, jobVars, unstarted, inflight, active_connections,
                   connection_jobs, ws>>

\* a handler that ends without its finally clause
WsHandlerEndsRegistered(w) ==
    /\ ws[w].state \in {"snapshot", "receiving"}
    /\ transport[w] = "closed"
    /\ ws' = [ws EXCEPT ![w].state = "done"]
    /\ UNCHANGED <<envVars, jobVars, unstarted, transport, inflight,
                   active_connections, connection_jobs>>

\* The handler's pending send or receive raises because the client has gone:
\* the finally clause disconnects the observer and the handler ends
WsHandlerEnds(w) ==
    /\ ws[w].state \in {"snapshot", "receiving"}
    /\ transport[w] = "closed"
    /\ SetRegistry(disconnect(Registry, w), inflight)
    /\ ws' = [ws EXCEPT ![w].state = "done"]
    /\ UNCHANGED <<envVars, jobVars, unstarted, transport>>

-----------------------------------------------------------------------------

\* The requests and the run_job tasks
JobsNext ==
    \/ ProcessVideo
    \/ ProcessVideoRejected
    \/ \E job_id \in JobIds :
          \/ RunJobBegin(job_id)
          \/ ScriptReturns(job_id)
          \/ ScriptRaises(job_id)
          \/ PromptsReturn(job_id)
          \/ SubmitReturns(job_id)
          \/ SubmitRaises(job_id)
          \/ SubmitRetries(job_id)
          \/ PollReturns(job_id)
          \/ PollRaises(job_id)
          \/ BroadcastNoSubscribers(job_id)

Next == JobsNext

\* The orchestrator while no WebSocket client connects
Spec == Init /\ [][Next]_vars

\* The broadcast tasks that found subscribers, and the WebSocket handlers
ObserversNext ==
    \/ \E job_id \in JobIds : BroadcastStart(job_id)
    \/ \E t \in inflight :
          \/ BroadcastSendNext(t)
          \/ BroadcastFinish(t)
          \/ BroadcastCrash(t)
    \/ \E w \in Observers :
          \/ \E job_id \in JobIds, accepted \in BOOLEAN :
                WsOpen(w, job_id, accepted)
          \/ WsSnapshotSent(w)
          \/ WsClientCloses(w)
          \/ WsHandlerEnds(w)

\* run_job tasks that have had their first turn
Started == {j \in DOMAIN tasks : tasks[j] # "pending"}

\* The requests and the run_job tasks, of which at most MaxObservedRuns run
ObservedJobsNext ==
    \/ ProcessVideo
    \/ ProcessVideoRejected
    \/ \E job_id \in JobIds :
          \/ Cardinality(Started) < MaxObservedRuns /\ RunJobBegin(job_id)
          \/ ScriptReturns(job_id)
          \/ ScriptRaises(job_id)
          \/ PromptsReturn(job_id)
          \/ SubmitReturns(job_id)
          \/ SubmitRaises(job_id)
          \/ SubmitRetries(job_id)
          \/ PollReturns(job_id)
          \/ PollRaises(job_id)
          \/ BroadcastNoSubscribers(job_id)

NextObserved == ObservedJobsNext \/ ObserversNext

\* The orchestrator with WebSocket clients
SpecObserved == Init /\ [][NextObserved]_vars

\* One job, until its script stage is over, and its observers, with up to
\* MaxInterleaved broadcast tasks suspended in their sends at a time
NextInterleaved ==
    \/ DOMAIN jobs = {} /\ ProcessVideo
    \/ \E job_id \in JobIds :
          \/ RunJobBegin(job_id)
          \/ ScriptReturns(job_id)
          \/ ScriptRaises(job_id)
          \/ BroadcastNoSubscribers(job_id)
          \/ BroadcastStartInterleaved(job_id)
    \/ \E t \in inflight :
          \/ BroadcastSendNext(t)
          \/ BroadcastFinish(t)
          \/ BroadcastCrash(t)
    \/ \E w \in Observers :
          \/ \E job_id \in JobIds, accepted \in BOOLEAN :
                WsOpen(w, job_id, accepted)
          \/ WsSnapshotSent(w)
          \/ WsClientCloses(w)
          \/ WsHandlerEnds(w)

SpecInterleaved == Init /\ [][NextInterleaved]_vars

\* One job whose render takes up to MaxRenderPolls sleeps, no WebSocket client
NextRender ==
    \/ DOMAIN jobs = {} /\ ProcessVideo
    \/ \E job_id \in JobIds :
          \/ RunJobBegin(job_id)
          \/ ScriptReturns(job_id)
          \/ ScriptRaises(job_id)
          \/ PromptsReturn(job_id)
          \/ SubmitReturns(job_id)
          \/ SubmitRaises(job_id)
          \/ SubmitRetries(job_id)
          \/ PollReturnsLate(job_id)
          \/ PollRaises(job_id)
          \/ BroadcastNoSubscribers(job_id)

SpecRender == Init /\ [][NextRender]_vars

-----------------------------------------------------------------------------
(* The public methods of JobManager and ConnectionManager called directly,   *)
(* in any order, next to one job that runs until its script stage fails;     *)
(* the other job id is never created                                         *)

CallStatuses == {"rendering", "failed"}

CallPercents == {50, 100}

\* job_manager.update_progress(job_id, ...) with an id create_job never gave
CallUpdateProgress(job_id, status, progress_percent) ==
    /\ pc[job_id] = "absent"
    /\ LET m == update_progress(Stores, job_id, status, progress_percent,
                                "rendering", <<"rendering">>)
       IN /\ jobs' = m.jobs
          /\ results' = m.results
          /\ unstarted' = m.unstarted
          /\ leftTerminal' = m.leftTerminal
          /\ resultWrites' = m.resultWrites
          /\ writeLog' = m.writeLog
    /\ UNCHANGED <<tasks, pc, polls, submit, pipelineOutcome>>
    /\ UNCHANGED <<envVars, registryVars, inflight>>

\* job_manager.cleanup_old_jobs(max_age_hours)
CallCleanupOldJobs(max_age_hours) ==
    /\ LET m == cleanup_old_jobs(Stores, max_age_hours)
       IN /\ jobs' = m.jobs
          /\ results' = m.results
          /\ unstarted' = m.unstarted
          /\ leftTerminal' = m.leftTerminal
          /\ resultWrites' = m.resultWrites
          /\ writeLog' = m.writeLog
    /\ UNCHANGED <<tasks, pc, polls, submit, pipelineOutcome>>
    /\ UNCHANGED <<envVars, registryVars, inflight>>

\* connection_manager.connect(websocket, job_id), accept() having returned
CallConnect(w, job_id) ==
    /\ transport[w] = "open"
    /\ SetRegistry(connect(Registry, w, job_id), inflight)
    /\ UNCHANGED <<envVars, jobVars, unstarted, ws, transport>>

\* connection_manager.disconnect(websocket)
CallDisconnect(w) ==
    /\ SetRegistry(disconnect(Registry, w), inflight)
    /\ UNCHANGED <<envVars, jobVars, unstarted, ws, transport>>

\* the client of a registered WebSocket goes away
TransportCloses(w) ==
    /\ w \in DOMAIN connection_jobs
    /\ transport[w] = "open"
    /\ transport' = [transport EXCEPT ![w] = "closed"]
    /\ UNCHANGED <<envVars, jobVars, unstarted, inflight, active_connections,
                   connection_jobs, ws>>

NextCalls ==
    \/ DOMAIN jobs = {} /\ ProcessVideo
    \/ \E job_id \in JobIds :
          \/ RunJobBegin(job_id)
          \/ ScriptRaises(job_id)
          \/ BroadcastNoSubscribers(job_id)
          \/ BroadcastStart(job_id)
          \/ \E status \in CallStatuses, progress_percent \in CallPercents :
                CallUpdateProgress(job_id, status, progress_percent)
    \/ CallCleanupOldJobs(24)
    \/ \E t \in inflight :
          \/ BroadcastSendNext(t)
          \/ BroadcastFinish(t)
          \/ BroadcastCrash(t)
    \/ \E w \in Observers :
          \/ \E job_id \in JobIds : CallConnect(w, job_id)
          \/ CallDisconnect(w)
          \/ TransportCloses(w)

SpecCalls == Init /\ [][NextCalls]_vars

-----------------------------------------------------------------------------
(* Fairness: the event loop runs every task that is ready, and every awaited *)
(* stage comes back; the render is reported finished within MaxPolls sleeps  *)

JobStep(job_id) ==
    \/ RunJobBegin(job_id)
    \/ ScriptReturns(job_id)
    \/ ScriptRaises(job_id)
    \/ PromptsReturn(job_id)
    \/ SubmitReturns(job_id)
    \/ SubmitRaises(job_id)
    \/ SubmitRetries(job_id)
    \/ PollReturns(job_id)
    \/ PollRaises(job_id)
    \/ BroadcastNoSubscribers(job_id)

FairSpec == Spec /\ \A job_id \in JobIds : WF_vars(JobStep(job_id))

-----------------------------------------------------------------------------
(* Properties of the job lifecycle *)

\* C1: when the pipeline of a job raises an exception e, the job has a Result
\* Record with status failed whose error is a non-empty text containing str(e)
C1_FailureRecorded ==
    \A j \in JobIds :
        pipelineOutcome[j].kind = "raised" =>
            /\ j \in DOMAIN results
            /\ results[j].status = "failed"
            /\ Truthy(results[j].error)
            /\ Contains(TheValue(results[j].error), pipelineOutcome[j].exc.text)

C1_Witness ==
    \E j \in JobIds :
        /\ pipelineOutcome[j].kind = "raised"
        /\ pipelineOutcome[j].exc.text = <<"vendor quota exceeded">>
        /\ j \in DOMAIN results
        /\ results[j].error =
               Some(<<"Job failed: ", "vendor quota exceeded">>)

C3_NoEscape ==
    \A j \in DOMAIN tasks :
        /\ tasks[j] # "crashed"
        /\ pipelineOutcome[j].kind = "raised" =>
              /\ tasks[j] = "finished"
              /\ jobs[j].status = "failed"
              /\ j \in DOMAIN results

C3_Witness ==
    \E j \in DOMAIN tasks :
        /\ pipelineOutcome[j].kind = "raised"
        /\ pipelineOutcome[j].exc.cls = "ValueError"
        /\ tasks[j] = "finished"

\* C4: with every stage coming back and the render reported finished after
\* finitely many polls, every started job comes to have a terminal Progress
\* status and a Result Record
C4_Terminates ==
    \A j \in JobIds :
        (j \in DOMAIN tasks) ~>
            (/\ j \in DOMAIN results
             /\ jobs[j].status \in TerminalStatuses
             /\ tasks[j] = "finished")

C4_Witness ==
    \E j \in DOMAIN tasks :
        /\ tasks[j] = "finished"
        /\ j \in DOMAIN results
        /\ jobs[j].status \in TerminalStatuses
        /\ \E k \in DOMAIN tasks : pc[k] = "poll" /\ polls[k] = MaxPolls

\* C5: no write of a job's status replaces completed or failed by another
\* value
C5_TerminalSticks ==
    \A j \in JobIds : ~leftTerminal[j]

\* the pipeline reported completed, then run_job recorded the job as failed
C5_Witness ==
    \E j \in DOMAIN jobs :
        /\ leftTerminal[j]
        /\ pipelineOutcome[j].kind = "returned"
        /\ jobs[j].status = "failed"
        /\ Len(unstarted[j]) >= 2
        /\ unstarted[j][Len(unstarted[j]) - 2].msg.status = "completed"
        /\ unstarted[j][Len(unstarted[j]) - 1].msg.type = "error"

\* C6: between two steps of the event loop a job has a Result Record exactly
\* when its Progress status is completed or failed
C6_ResultIffTerminal ==
    \A j \in DOMAIN jobs :
        (j \in DOMAIN results) <=> (jobs[j].status \in TerminalStatuses)

C6_Witness ==
    \E j \in DOMAIN jobs, k \in DOMAIN jobs :
        /\ j \in DOMAIN results
        /\ jobs[j].status = "failed"
        /\ k \notin DOMAIN results
        /\ jobs[k].status = "rendering"

\* C7: a job's Result Record and Progress Record agree: same status, percent
\* 100 when completed, percent 0 when failed, and on failure the same error
\* text with current_step "failed"
C7_RecordsAgree ==
    \A j \in DOMAIN results \cap DOMAIN jobs :
        /\ jobs[j].status = results[j].status
        /\ results[j].status = "completed" => jobs[j].progress_percent = 100
        /\ results[j].status = "failed" =>
              /\ jobs[j].progress_percent = 0
              /\ jobs[j].error = results[j].error
              /\ jobs[j].current_step = "failed"

C7_Witness ==
    \E j \in DOMAIN results \cap DOMAIN jobs :
        /\ results[j].status = "failed"
        /\ Truthy(results[j].error)
        /\ jobs[j].error = results[j].error
        /\ jobs[j].current_step = "failed"
        /\ jobs[j].progress_percent = 0

\* C8: a job's Result Record is written at most once, and once it is there no
\* step replaces or changes it
C8_WrittenOnce ==
    \A j \in JobIds :
        /\ resultWrites[j] <= 1
        /\ (j \in DOMAIN results) <=> (resultWrites[j] = 1)

C8_Witness ==
    \E j \in JobIds, k \in JobIds :
        /\ j # k
        /\ resultWrites[j] = 1
        /\ resultWrites[k] = 1
        /\ pipelineOutcome[j].kind = "raised"

\* C8, the second half: a step leaves every Result Record there is as it was
C8_Stable ==
    [][\A j \in DOMAIN results :
           j \in DOMAIN results' /\ results'[j] = results[j]]_vars

\* C9: a step that creates a job gives it a Progress Record with status
\* queued, percent 0 and no error, gives it no Result Record, and changes no
\* other job's records
C9_CreateJob ==
    [][\A j \in JobIds :
          (j \notin DOMAIN jobs /\ j \in DOMAIN jobs') =>
              /\ jobs'[j].job_id = j
              /\ jobs'[j].status = "queued"
              /\ jobs'[j].progress_percent = 0
              /\ jobs'[j].error = NoneVal
              /\ j \notin DOMAIN results'
              /\ \A k \in DOMAIN jobs : jobs'[k] = jobs[k]
              /\ results' = results]_vars

C9_Witness ==
    \E j \in DOMAIN jobs, k \in DOMAIN jobs :
        /\ jobs[j] = NewJobProgress(j)
        /\ tasks[j] = "pending"
        /\ k < j
        /\ k \in DOMAIN results

-----------------------------------------------------------------------------
(* Properties of the broadcasts *)

\* C10: a broadcast that ends while no send of it failed and the job's
\* subscriber set was not changed since it began has delivered its message
\* exactly once to each observer registered for the job and to nobody else,
\* and has ended without an exception
C10_ExactlyOnce ==
    [][\A t \in inflight :
          (/\ ~(\E u \in inflight' : u.job = t.job /\ u.seq = t.seq)
           /\ ~t.modified
           /\ t.failed = {}
           /\ transport[t.cur] = "open")
          => /\ ~IteratorRaises(t)
             /\ \A w \in Observers :
                   AfterSend(t).sent[w] =
                       IF w \in SetOf(Registry, t.job) THEN 1 ELSE 0]_vars

C10_Witness ==
    \E t \in inflight :
        /\ t.msg.type = "progress"
        /\ ~t.modified
        /\ t.failed = {}
        /\ t.used = 2
        /\ t.n = 2
        /\ t.sent[t.cur] = 0
        /\ \E w \in Observers : w # t.cur /\ t.sent[w] = 1
        /\ transport[t.cur] = "open"

\* The broadcast task t is in flight now and is gone after the step
Ends(t) == ~(\E u \in inflight' : u.job = t.job /\ u.seq = t.seq)

\* C11: a broadcast during whose sends the job's subscriber set was changed
\* (a connect, a disconnect) ends without an exception and has delivered its
\* message to every live observer that was registered when it began and
\* still is when it ends
C11_IterationSafe ==
    [][\A t \in inflight :
          (Ends(t) /\ t.modified) =>
              /\ ~IteratorRaises(t)
              /\ \A w \in t.start \cap SetOf(Registry, t.job) :
                    transport[w] = "open" => AfterSend(t).sent[w] >= 1]_vars

\* a connect or disconnect has changed the size of the set a suspended
\* broadcast iterates over: its iterator raises when the send returns
C11_Witness ==
    \E t \in inflight :
        /\ t.modified
        /\ ~t.dropped
        /\ IteratorRaises(t)
        /\ t.cur \in SetOf(Registry, t.job)
        /\ transport[t.cur] = "open"

\* The send of t that is pending now is over after the step
SendOver(t) ==
    ~(\E u \in inflight' : u.job = t.job /\ u.seq = t.seq /\ u.n = t.n)

\* C12: observers get the messages of a job in the order in which the
\* pipeline issued them. When a broadcast x whose subscriber set was not
\* changed delivers to observer w, no broadcast of the job issued after x has
\* delivered to w yet, and every unfinished broadcast of the job issued
\* before x (its set unchanged too) is already past w
C12_InOrder ==
    [][\A x \in inflight :
          (SendOver(x) /\ transport[x.cur] = "open" /\ ~x.modified) =>
              \A y \in inflight :
                  /\ (y.job = x.job /\ y.seq > x.seq) => y.sent[x.cur] = 0
                  /\ (y.job = x.job /\ y.seq < x.seq /\ ~y.modified) =>
                        (x.cur \in y.seen /\ y.cur # x.cur)]_vars

\* two broadcasts of a job interleave: the earlier one has delivered to one
\* observer and is sending to the other, the later one is sending to the first
C12_Witness ==
    \E x \in inflight, y \in inflight :
        /\ x.job = y.job
        /\ x.seq < y.seq
        /\ ~x.modified /\ ~y.modified
        /\ x.used = 2
        /\ x.n = 2
        /\ y.n = 1
        /\ x.sent[y.cur] = 1
        /\ x.cur # y.cur
        /\ transport[x.cur] = "open"
        /\ transport[y.cur] = "open"

\* C13: a broadcast in which a send failed ends without an exception, has
\* attempted every observer that was registered for the job when it began
\* and still is, and leaves the observers whose send failed unregistered
C13_FailureIsolated ==
    [][\A t \in inflight :
          (Ends(t) /\ AfterSend(t).failed # {}) =>
              /\ ~IteratorRaises(t)
              /\ (t.start \cap SetOf(Registry, t.job)) \subseteq t.seen
              /\ \A w \in AfterSend(t).failed :
                    w \notin DOMAIN connection_jobs']_vars

\* the same, for the broadcasts whose subscriber set nothing else changed
\* while they ran; the observers are those registered when it began
C13_FailureIsolatedUnchanged ==
    [][\A t \in inflight :
          (Ends(t) /\ AfterSend(t).failed # {} /\ ~t.modified) =>
              /\ ~IteratorRaises(t)
              /\ t.start \subseteq t.seen
              /\ \A w \in AfterSend(t).failed :
                    /\ w \notin DOMAIN connection_jobs'
                    /\ \A j \in DOMAIN active_connections' :
                          w \notin active_connections'[j]]_vars

\* a send of the broadcast failed, the handler of the observer that went
\* away has disconnected it meanwhile, and the iterator raises when the
\* pending send returns
C13_Witness ==
    \E t \in inflight :
        /\ t.failed # {}
        /\ t.modified
        /\ IteratorRaises(t)
        /\ \A w \in t.failed : w \notin DOMAIN connection_jobs
        /\ transport[t.cur] = "open"

-----------------------------------------------------------------------------
(* Properties of progress_percent *)

\* C14: the progress_percent of every Progress Record is between 0 and 100,
\* and so was every value ever written to it, whatever the poll loop's
\* elapsed time
C14_PercentInRange ==
    \A j \in DOMAIN jobs :
        /\ jobs[j].progress_percent \in 0..100
        /\ ~writeLog[j].outside

\* the render estimate has reached its cap: the job shows 35 + int(95 * 0.6)
C14_Witness ==
    \E j \in DOMAIN jobs :
        /\ pc[j] = "poll"
        /\ polls[j] * HEYGEN_POLL_INTERVAL > 600
        /\ jobs[j].progress_percent = 92

\* C15: in a run that has ended completed no write of progress_percent
\* lowered it, from the 0 of creation to the 100 of completion, whatever the
\* number of polls of the render status
C15_NonDecreasing ==
    \A j \in DOMAIN jobs :
        (tasks[j] = "finished" /\ jobs[j].status = "completed") =>
            /\ ~writeLog[j].dropped
            /\ jobs[j].progress_percent = 100

\* a run has ended completed and its result is stored
C15_Witness ==
    \E j \in DOMAIN jobs :
        /\ tasks[j] = "finished"
        /\ jobs[j].status = "completed"
        /\ j \in DOMAIN results
        /\ results[j].status = "completed"
        /\ ~writeLog[j].dropped

\* the messages of heygen_progress_callback that wait to be broadcast
CallbackMessages ==
    UNION {{unstarted[j][i].msg : i \in DOMAIN unstarted[j]} : j \in JobIds}

\* C16: the callback maps a percent p of 0..100 to 35 + floor(0.6 * p), a
\* value of 35..95: 0, 50 and 100 give 35, 65 and 95; the percent it reports
\* on a failed render, while the render runs and on its completion are 35,
\* 35 + floor(0.6 * estimate) and 95
C16_BandMapping ==
    /\ \A p \in 0..100 :
          /\ MapPercent(p) \in 35..95
          /\ 10 * (MapPercent(p) - 35) <= 6 * p
          /\ 6 * p < 10 * (MapPercent(p) - 35) + 10
    /\ MapPercent(0) = 35
    /\ MapPercent(50) = 65
    /\ MapPercent(100) = 95
    /\ \A m \in CallbackMessages :
          /\ (m.type = "progress" /\ m.status = "rendering") =>
                m.progress_percent \in 35..95
          /\ (m.type = "progress" /\ m.message = <<"Video rendering complete!">>)
                => m.progress_percent = 95
          /\ (/\ m.type = "progress"
              /\ m.status = "rendering"
              /\ Head(m.message) = "Video failed: ") => m.progress_percent = 35
    /\ \A j \in DOMAIN jobs :
          (pc[j] = "poll" /\ polls[j] > 0) =>
              LET estimate == PollProgressPercent(
                                  (polls[j] - 1) * HEYGEN_POLL_INTERVAL)
              IN /\ 10 * (jobs[j].progress_percent - 35) <= 6 * estimate
                 /\ 6 * estimate < 10 * (jobs[j].progress_percent - 35) + 10

\* the estimate of the poll loop is 50 and the job shows 65
C16_Witness ==
    \E j \in DOMAIN jobs :
        /\ pc[j] = "poll"
        /\ polls[j] > 0
        /\ PollProgressPercent((polls[j] - 1) * HEYGEN_POLL_INTERVAL) = 50
        /\ jobs[j].progress_percent = 65

-----------------------------------------------------------------------------
(* Properties of the methods called directly *)

\* C17: for an id that create_job never gave, get_job_progress and
\* get_job_result return None, and update_progress returns normally leaving
\* every store as it was: no record created or changed, no broadcast queued
C17_UnknownJob ==
    \A id \in JobIds :
        pc[id] = "absent" =>
            /\ get_job_progress(Stores, id) = NoneVal
            /\ get_job_result(Stores, id) = NoneVal
            /\ \A status \in JobStatus, progress_percent \in {0, 50, 100} :
                  update_progress(Stores, id, status, progress_percent,
                                  "rendering", <<"rendering">>) = Stores

\* an id was never created while another job has its record, its result and
\* a broadcast waiting
C17_Witness ==
    \E id \in JobIds, j \in DOMAIN jobs :
        /\ pc[id] = "absent"
        /\ j \in DOMAIN results
        /\ unstarted[j] # <<>>
        /\ DOMAIN active_connections # {}

\* C18: disconnect of an observer that is not registered leaves the
\* registry as it is, and a second disconnect of an observer changes nothing
\* the first one left
C18_DisconnectIdempotent ==
    \A w \in Observers :
        /\ w \notin DOMAIN connection_jobs =>
              disconnect(Registry, w) = Registry
        /\ disconnect(disconnect(Registry, w), w) = disconnect(Registry, w)

\* an observer whose client went away is registered no more (its disconnect
\* or the cleanup of a broadcast has removed it) while another one is
C18_Witness ==
    \E w \in Observers, v \in DOMAIN connection_jobs :
        /\ transport[w] = "closed"
        /\ w \notin DOMAIN connection_jobs
        /\ v # w

\* C19: a step that ends an observer's registration (disconnect) leaves it
\* in no job's subscriber set, whatever connects came before
C19_RemovedEverywhere ==
    [][\A w \in Observers :
          (w \in DOMAIN connection_jobs /\ w \notin DOMAIN connection_jobs')
              => \A j \in DOMAIN active_connections' :
                    w \notin active_connections'[j]]_vars

\* a broadcast is sending to an observer that was disconnected and is still
\* in the subscriber set of the job it was connected to first
C19_Witness ==
    \E t \in inflight :
        /\ t.cur \notin DOMAIN connection_jobs
        /\ t.cur \in SetOf(Registry, t.job)
        /\ t.cur \notin t.failed
        /\ transport[t.cur] = "open"

-----------------------------------------------------------------------------
(* Properties of POST /api/process-video *)

\* C21: the step that starts a job leaves its run_job task pending: when
\* process_video answers, nothing of run_job or of the pipeline has run, the
\* Progress Record is queued at 0 percent, and it stays so until the task has
\* its first turn
C21_FireAndForget ==
    [][\A j \in JobIds :
          /\ (j \notin DOMAIN tasks /\ j \in DOMAIN tasks') =>
                /\ lastResponse' = 200
                /\ tasks'[j] = "pending"
                /\ pc'[j] = "scheduled"
                /\ jobs'[j] = NewJobProgress(j)
                /\ unstarted'[j] = <<>>
                /\ pipelineOutcome'[j] = NoOutcome
                /\ j \notin DOMAIN results'
          /\ (j \in DOMAIN tasks' /\ tasks'[j] = "pending") =>
                /\ jobs'[j].status = "queued"
                /\ jobs'[j].progress_percent = 0]_vars

\* a job has been answered and waits for its first turn while an earlier one
\* is running
C21_Witness ==
    \E j \in DOMAIN tasks, k \in DOMAIN tasks :
        /\ lastResponse = 200
        /\ tasks[j] = "pending"
        /\ pc[j] = "scheduled"
        /\ jobs[j].progress_percent = 0
        /\ tasks[k] = "running"

\* a required API key is not configured
KeyMissing == Len(settings.GROQ_API_KEY) = 0 \/ Len(settings.HEYGEN_API_KEY) = 0

\* C24: while GROQ_API_KEY or HEYGEN_API_KEY is missing every process-video
\* request is answered with an error at once, and neither it nor anything
\* else creates a job: the stores and the task table stay empty and no
\* pipeline is scheduled
C24_NoJobWithoutKeys ==
    KeyMissing =>
        /\ lastResponse \in {0, 500}
        /\ jobs = <<>>
        /\ results = <<>>
        /\ tasks = <<>>
        /\ \A j \in JobIds : pc[j] = "absent" /\ unstarted[j] = <<>>
        /\ LET r == process_video(settings, Stores, NextJobId)
           IN /\ r.code = 500
              /\ ~r.created
              /\ r.step.m = Stores

\* a request was refused for the missing HeyGen key, the Groq key being set
C24_Witness ==
    /\ lastResponse = 500
    /\ Len(settings.GROQ_API_KEY) > 0
    /\ Len(settings.HEYGEN_API_KEY) = 0
    /\ jobs = <<>>

-----------------------------------------------------------------------------
(* Properties of the status *)

\* C22: every write of a job's status keeps it, or moves it one place on in
\* queued, processing, scripting, rendering, completed, or sets failed in
\* place of a status that is not terminal
C22_StatusOrder ==
    \A j \in JobIds : ~writeLog[j].backwards

\* the same but for the one write that replaces completed by failed when the
\* Result Record of a pipeline that returned cannot be built
C22_StatusOrderWhileResultValid ==
    \A j \in JobIds :
        writeLog[j].backwards =>
            /\ leftTerminal[j]
            /\ pipelineOutcome[j].kind = "returned"
            /\ ~VideoResultValidates(pipelineOutcome[j].fields)
            /\ jobs[j].status = "failed"

\* a job went through every status up to completed and was then set failed
C22_Witness ==
    \E j \in DOMAIN jobs :
        /\ writeLog[j].backwards
        /\ tasks[j] = "finished"
        /\ jobs[j].status = "failed"
        /\ j \in DOMAIN results
        /\ results[j].status = "failed"

-----------------------------------------------------------------------------
(* Properties of the terminal broadcast *)

\* the "complete" and "error" messages among those a step of job j's task
\* has queued for broadcast (the task runs when its earlier broadcasts have
\* begun, so the queue holds what the step created)
NewTerminalMessages(j) ==
    IF unstarted[j] = <<>>
    THEN {i \in DOMAIN unstarted'[j] :
             unstarted'[j][i].msg.type \in {"complete", "error"}}
    ELSE {}

\* the step that finishes job j's task queues one terminal message, which is
\* "complete" with status completed if `success` and "error" with status
\* failed and run_job's error string if not, and no other step queues one
TerminalBroadcast(j, success) ==
    IF tasks[j] # "finished" /\ tasks'[j] = "finished"
    THEN /\ Cardinality(NewTerminalMessages(j)) = 1
         /\ \A i \in NewTerminalMessages(j) :
               LET msg == unstarted'[j][i].msg
               IN IF success
                  THEN /\ msg.type = "complete"
                       /\ msg.status = "completed"
                       /\ msg.error = NoneVal
                  ELSE /\ msg.type = "error"
                       /\ msg.status = "failed"
                       /\ Truthy(msg.error)
                       /\ Head(TheValue(msg.error)) = "Job failed: "
                       /\ msg.error = results'[j].error
    ELSE NewTerminalMessages(j) = {}

-----------------------------------------------------------------------------
(* C25: the retry loop of the render submission *)

\* The waits the loop has slept after k failed submissions
SleptAfter(k) == SubSeq(retry_delays, 1, k)

\* The attempt in progress is the first, second or third, the waits slept
\* before it are 2 s and then 5 s, every transient failure before the third
\* attempt is answered with a sleep and another attempt, and a failure of the
\* third attempt of whatever kind makes the call raise
BoundedRetry ==
    \A j \in JobIds :
        /\ submit[j].attempt \in 0 .. 2
        /\ submit[j].slept = SleptAfter(submit[j].attempt)
        /\ submit[j].slept \in {<<>>, <<2>>, <<2, 5>>}
        /\ pc[j] # "submit" => submit[j] = NoSubmission
        /\ \A response \in TransientResponses :
              submit_attempt(submit[j].attempt, response).act =
                 IF submit[j].attempt < 2 THEN "sleep" ELSE "raise"
        /\ \A response \in SubmitResponses \ TransientResponses :
              submit_attempt(submit[j].attempt, response).act =
                 IF response = "video_id" THEN "return" ELSE "raise"

\* A step that leaves the pipeline inside generate_avatar_video either
\* belongs to something else or is one more submission after one more sleep
RetryAdvances ==
    \A j \in JobIds :
        (pc[j] = "submit" /\ pc'[j] = "submit" /\ submit'[j] # submit[j]) =>
            /\ submit'[j].attempt = submit[j].attempt + 1
            /\ submit'[j].slept =
                  Append(submit[j].slept, retry_delays[submit[j].attempt + 1])

\* (C25) A call of generate_avatar_video retries a transient failure of the
\* submission, submits at most three times with waits of 2 s and then 5 s,
\* raises RuntimeError when the third submission fails, and terminates: every
\* submission returns the video id, raises, or is followed by a submission
\* with a higher attempt number, of which there are three
C25_BoundedRetry == []BoundedRetry /\ [][RetryAdvances]_vars

\* under fair scheduling, a pipeline awaiting the submission comes to leave
\* that await, with a video id or with the RuntimeError
C25_SubmitTerminates ==
    \A j \in JobIds : (pc[j] = "submit") ~> (pc[j] # "submit")

\* two transient failures have been slept through and the third submission is
\* in progress
C25_Witness ==
    \E j \in JobIds : pc[j] = "submit" /\ submit[j].slept = <<2, 5>>

-----------------------------------------------------------------------------
(* C26: a status poll that fails in transit *)

\* The polls that end in a network error, a timeout or a non-200 response
TransientPollResponses ==
    {resp \in PollResponses : resp.kind \in {"http_error", "request_error"}}

\* The error texts wait_for_completion hands back for them
TransientPollErrors ==
    {format_error_message(get_video_status(resp).error) :
        resp \in TransientPollResponses}

\* The pipeline of job j ended by raising the error of a poll that failed in
\* transit
EndedByTransientPoll(j) ==
    /\ pipelineOutcome[j].kind = "raised"
    /\ pipelineOutcome[j].exc.text \in TransientPollErrors

\* (C26) A status poll that fails with a network error, a timeout or a
\* non-200 response is retried and does not by itself make the job failed: no
\* job is failed because of the error of such a poll
C26_PollFailureNotFatal ==
    \A j \in DOMAIN jobs :
        EndedByTransientPoll(j) => jobs[j].status # "failed"

\* the first and only poll of a job failed in transit, and the job is failed
\* with a Result Record that carries the error
C26_Witness ==
    \E j \in DOMAIN jobs :
        /\ EndedByTransientPoll(j)
        /\ pc[j] = "done"
        /\ jobs[j].status = "failed"
        /\ j \in DOMAIN results /\ results[j].status = "failed"

-----------------------------------------------------------------------------
(* run_job with a synchronous job_func, run by loop.run_in_executor *)

\* What a synchronous pipeline returns: a result VideoResult accepts
SyncFields ==
    [video_url |-> Some(<<"http://x/y.mp4">>), thumbnail_url |-> NoneVal,
     duration |-> NoneVal, script |-> Some(SCRIPT)]

\* job_manager.create_job() and job_manager.start_job_async(job_id, job_func)
\* with a job_func that is a plain function
StartSyncJob ==
    /\ NextJobId \in JobIds
    /\ LET step == start_job_async(create_job(Stores, NextJobId), NextJobId)
       IN /\ jobs' = step.m.jobs
          /\ results' = step.m.results
          /\ unstarted' = step.m.unstarted
          /\ leftTerminal' = step.m.leftTerminal
          /\ resultWrites' = step.m.resultWrites
          /\ writeLog' = step.m.writeLog
          /\ tasks' = (NextJobId :> step.task) @@ tasks
          /\ pc' = [pc EXCEPT ![NextJobId] = step.pc]
          /\ pipelineOutcome' =
                [pipelineOutcome EXCEPT ![NextJobId] = step.outcome]
    /\ job_func' = [job_func EXCEPT ![NextJobId] = "sync"]
    /\ UNCHANGED <<hashOrder, settings, scriptCall, lastResponse, lastRead, snapshot, lost,
                   polls,
                   submit,
                   registryVars, inflight>>

\* The thread of the executor runs the pipeline up to a call of
\* job_manager.update_progress; an exception raised there ends the pipeline
\* and becomes the exception of the future run_job awaits
SyncPipelineReports(job_id) ==
    /\ pc[job_id] = "executor"
    /\ \E status \in {"scripting", "rendering"} :
          LET r == update_progress_in_thread(Stores, job_id, status, 50,
                                             status, <<"working">>)
          IN /\ jobs' = r.m.jobs
             /\ results' = r.m.results
             /\ unstarted' = r.m.unstarted
             /\ leftTerminal' = r.m.leftTerminal
             /\ resultWrites' = r.m.resultWrites
             /\ writeLog' = r.m.writeLog
             /\ IF r.raised = NoneVal
                THEN UNCHANGED <<pc, pipelineOutcome>>
                ELSE /\ pc' = [pc EXCEPT ![job_id] = "joining"]
                     /\ pipelineOutcome' =
                           [pipelineOutcome EXCEPT ![job_id] =
                               [kind |-> "raised",
                                exc |-> TheValue(r.raised)]]
    /\ UNCHANGED <<tasks, polls, submit>>
    /\ UNCHANGED <<envVars, registryVars, inflight>>

\* The thread of the executor runs the pipeline to its return
SyncPipelineReturns(job_id) ==
    /\ pc[job_id] = "executor"
    /\ pc' = [pc EXCEPT ![job_id] = "joining"]
    /\ pipelineOutcome' = [pipelineOutcome EXCEPT ![job_id] =
                              [kind |-> "returned", fields |-> SyncFields]]
    /\ UNCHANGED <<jobs, results, unstarted, leftTerminal, resultWrites,
                   writeLog, tasks, polls, submit>>
    /\ UNCHANGED <<envVars, registryVars, inflight>>

\* await loop.run_in_executor(...) resumes in run_job
ExecutorJoins(job_id) ==
    /\ Resumes(job_id, "joining")
    /\ Commit(job_id,
              ExecutorJoined(Stores, job_id, pipelineOutcome[job_id]), 0)

NextSync ==
    \/ JobsNext
    \/ StartSyncJob
    \/ \E job_id \in JobIds :
          \/ SyncPipelineReports(job_id)
          \/ SyncPipelineReturns(job_id)
          \/ ExecutorJoins(job_id)

\* The orchestrator given coroutine functions and plain functions to run
SpecSync == Init /\ [][NextSync]_vars

\* (C27) update_progress called by a synchronous pipeline in its worker
\* thread updates the record and schedules the broadcast without raising, and
\* a synchronous pipeline that reports progress and returns normally ends
\* with the job completed: no pipeline of a plain function ends by an
\* exception, and every job of one that is over is completed
C27_SyncPipelineCompletes ==
    \A j \in DOMAIN jobs :
        job_func[j] = "sync" =>
            /\ pipelineOutcome[j].kind # "raised"
            /\ pc[j] = "done" => jobs[j].status = "completed"

\* the job of a synchronous pipeline is failed with the error asyncio raised
\* in the worker thread
C27_Witness ==
    \E j \in DOMAIN jobs :
        /\ job_func[j] = "sync"
        /\ pc[j] = "done"
        /\ pipelineOutcome[j] = [kind |-> "raised", exc |-> NoRunningLoop]
        /\ jobs[j].status = "failed"
        /\ results[j].error = Some(FormatJobError(NoRunningLoop.text))

-----------------------------------------------------------------------------
(* C28: broadcasts that find no subscriber *)

\* The observer that connects first
FirstObserver == {w \in Observers : \A v \in Observers : w <= v}

\* One observer, who may open its WebSocket at any moment of the job's run
LateObserverNext ==
    \/ \E job_id \in JobIds : BroadcastStart(job_id)
    \/ \E t \in inflight :
          \/ BroadcastFinish(t)
          \/ BroadcastCrash(t)
    \/ \E w \in FirstObserver :
          \/ \E job_id \in JobIds, accepted \in BOOLEAN :
                WsOpen(w, job_id, accepted)
          \/ WsSnapshotSent(w)
          \/ WsClientCloses(w)
          \/ WsHandlerEnds(w)

\* One job, its run and one observer, with a note of every message whose
\* broadcast found no subscriber set
NextLate ==
    \/ DOMAIN jobs = {} /\ ProcessVideo
    \/ \E job_id \in JobIds :
          \/ RunJobBegin(job_id)
          \/ ScriptReturns(job_id)
          \/ ScriptRaises(job_id)
          \/ PromptsReturn(job_id)
          \/ SubmitReturns(job_id)
          \/ SubmitRaises(job_id)
          \/ PollReturns(job_id)
          \/ PollRaises(job_id)
          \/ BroadcastNoSubscribersNoted(job_id)
    \/ LateObserverNext

SpecLate == Init /\ [][NextLate]_vars

\* (C28) A broadcast for a job that has no subscribers does nothing and
\* buffers nothing: the step in which it finds no subscriber set ends its
\* task, leaves no task of the job waiting for a turn, adds no task to those
\* that are sending, sends nothing and changes neither the registry nor any
\* observer, so that its message is nowhere for an observer that connects
\* later to be sent
C28_NothingBuffered ==
    [][\A j \in JobIds :
          lost'[j] # lost[j] =>
              /\ unstarted'[j] = <<>>
              /\ inflight' = inflight
              /\ active_connections' = active_connections
              /\ connection_jobs' = connection_jobs
              /\ ws' = ws
              /\ snapshot' = snapshot]_vars

\* an observer that connected after two broadcasts of its job had found no
\* subscriber is being sent a later message of the job
C28_Witness ==
    \E t \in inflight :
        /\ Cardinality(lost[t.job]) >= 2
        /\ ws[t.cur].job = t.job
        /\ ws[t.cur].state = "receiving"
        /\ transport[t.cur] = "open"

-----------------------------------------------------------------------------
(* Reads of the records: the getters of JobManager and GET .../result *)

\* A read by `op` of the record of job_id that returns `value`: nothing but
\* the note of the read changes
Reads(op, job_id, value) ==
    /\ lastRead' = [op |-> op, job_id |-> job_id, value |-> value]
    /\ UNCHANGED <<hashOrder, settings, scriptCall, job_func, lastResponse, snapshot,
                   lost>>
    /\ UNCHANGED <<jobVars, unstarted, registryVars, inflight>>

\* GET /job/{job_id}/result is served; the handler has no await
ServeGetJobResult(job_id) ==
    Reads("GET /job/{job_id}/result", job_id,
          Some(get_job_result_endpoint(Stores, job_id)))

\* job_manager.get_job_progress(job_id)
CallGetJobProgress(job_id) ==
    Reads("get_job_progress", job_id, get_job_progress(Stores, job_id))

\* job_manager.get_job_result(job_id)
CallGetJobResult(job_id) ==
    Reads("get_job_result", job_id, get_job_result(Stores, job_id))

\* One job, its run, one observer and the reads of the records, of the job
\* and of an id that no job has
NextReads ==
    \/ DOMAIN jobs = {} /\ ProcessVideo
    \/ \E job_id \in JobIds :
          \/ RunJobBegin(job_id)
          \/ ScriptReturns(job_id)
          \/ ScriptRaises(job_id)
          \/ PromptsReturn(job_id)
          \/ SubmitReturns(job_id)
          \/ SubmitRaises(job_id)
          \/ PollReturns(job_id)
          \/ PollRaises(job_id)
          \/ BroadcastNoSubscribers(job_id)
          \/ ServeGetJobResult(job_id)
          \/ CallGetJobProgress(job_id)
          \/ CallGetJobResult(job_id)
    \/ LateObserverNext

SpecReads == Init /\ [][NextReads]_vars

\* (C29) For a job that was created and started once, GET .../result answers
\* 202 "still processing" exactly as long as the job has no Result Record and
\* answers with the Result Record from then on; it answers 404 only for an
\* id that has no Progress Record
C29_ResultEndpoint ==
    \A j \in JobIds :
        LET answer == get_job_result_endpoint(Stores, j)
        IN /\ j \in DOMAIN jobs =>
                 IF j \in DOMAIN results
                 THEN answer = [code |-> 200, detail |-> results[j]]
                 ELSE answer.code = 202
           /\ answer.code = 404 => j \notin DOMAIN jobs

\* the endpoint has answered 202 for a job that is rendering and has no
\* Result Record
C29_Witness ==
    /\ lastRead.op = "GET /job/{job_id}/result"
    /\ lastRead.job_id \in DOMAIN jobs \ DOMAIN results
    /\ TheValue(lastRead.value).code = 202
    /\ pc[lastRead.job_id] = "poll"
    /\ jobs[lastRead.job_id].status = "rendering"

-----------------------------------------------------------------------------
(* C30: the getters are pure reads *)

\* The step is a call of the getter `op`
GetterCalled(op) == lastRead'.op = op /\ lastRead' # lastRead

\* What the store `store` holds for job_id, as an Optional
Lookup(store, job_id) ==
    IF job_id \in DOMAIN store THEN Some(store[job_id]) ELSE NoneVal

\* (C30) get_job_progress and get_job_result are pure reads: a call changes
\* neither the two stores nor the registry (nor the tasks and the broadcasts
\* under way), and it returns what the store holds for the id after the call,
\* which is what a second call made right after it returns
C30_PureReads ==
    [][(GetterCalled("get_job_progress") \/ GetterCalled("get_job_result"))
          => /\ UNCHANGED <<jobs, results, tasks, unstarted, inflight,
                            active_connections, connection_jobs>>
             /\ lastRead'.value =
                   IF lastRead'.op = "get_job_progress"
                   THEN Lookup(jobs', lastRead'.job_id)
                   ELSE Lookup(results', lastRead'.job_id)]_vars

\* get_job_progress has returned the record of a job that is rendering while
\* an observer is registered for it, and get_job_result would return None
C30_Witness ==
    /\ lastRead.op = "get_job_progress"
    /\ lastRead.job_id \in DOMAIN jobs
    /\ lastRead.value = Some(jobs[lastRead.job_id])
    /\ jobs[lastRead.job_id].status = "rendering"
    /\ lastRead.job_id \in DOMAIN active_connections
    /\ get_job_result(Stores, lastRead.job_id) = NoneVal

-----------------------------------------------------------------------------
(* C31: jobs that run side by side *)

\* Two jobs and their runs, and one observer who stays
NextShared ==
    \/ ProcessVideo
    \/ \E job_id \in JobIds :
          \/ RunJobBegin(job_id)
          \/ ScriptReturns(job_id)
          \/ ScriptRaises(job_id)
          \/ PromptsReturn(job_id)
          \/ SubmitReturns(job_id)
          \/ PollReturns(job_id)
          \/ PollRaises(job_id)
          \/ BroadcastNoSubscribers(job_id)
          \/ BroadcastStart(job_id)
    \/ \E t \in inflight : BroadcastFinish(t)
    \/ \E w \in FirstObserver :
          \/ \E job_id \in JobIds : WsOpen(w, job_id, TRUE)
          \/ WsSnapshotSent(w)

SpecShared == Init /\ [][NextShared]_vars

\* The step is one of job j's own: its creation or a turn of its run_job task
OwnStep(j) ==
    pc'[j] # pc[j] \/ polls'[j] # polls[j] \/ submit'[j] # submit[j]

\* (C31) With several jobs running, every step of job j's run (its
\* update_progress and set_result calls, its pipeline's faults) leaves the
\* Progress Record, the Result Record and the subscriber set of every other
\* job unchanged, and a Progress Record or Result Record changes only in a
\* step of its own job's run
C31_JobsIsolated ==
    [][\A k \in DOMAIN jobs :
          /\ (\E j \in JobIds \ {k} : OwnStep(j)) =>
                /\ jobs'[k] = jobs[k]
                /\ Lookup(results', k) = Lookup(results, k)
                /\ Lookup(active_connections', k) =
                      Lookup(active_connections, k)
          /\ (jobs'[k] # jobs[k] \/ Lookup(results', k) # Lookup(results, k))
                => OwnStep(k)]_vars

\* two jobs are rendering at the same time, with different percents, and an
\* observer is registered for one of them
C31_Witness ==
    \E j, k \in DOMAIN jobs :
        /\ j # k
        /\ pc[j] = "poll" /\ pc[k] = "submit"
        /\ jobs[j].progress_percent # jobs[k].progress_percent
        /\ k \in DOMAIN active_connections

-----------------------------------------------------------------------------
(* C32: what is broadcast after the terminal message *)

TerminalTypes == {"complete", "error"}

\* The places of the queue of job j's broadcast tasks, which is in the order
\* of their creation, that hold a "progress" message created after a terminal
\* message
ProgressAfterTerminal(j) ==
    {i \in DOMAIN unstarted[j] :
        /\ unstarted[j][i].msg.type = "progress"
        /\ \E h \in 1..(i - 1) : unstarted[j][h].msg.type \in TerminalTypes}

\* (C32) The terminal message is the last message broadcast for a job: once
\* a "complete" or "error" message has been scheduled for job j, no
\* "progress" message is scheduled for j
C32_TerminalIsLast ==
    \A j \in JobIds : ProgressAfterTerminal(j) = {}

\* the script stage raised: the "error" message of set_result is followed by
\* the "progress" message of the handler's update_progress(FAILED, ...), which
\* is the last message of the job
C32_Witness ==
    \E j \in DOMAIN jobs :
        /\ pc[j] = "done"
        /\ pipelineOutcome[j].kind = "raised"
        /\ Len(unstarted[j]) >= 2
        /\ unstarted[j][Len(unstarted[j]) - 1].msg.type = "error"
        /\ unstarted[j][Len(unstarted[j])].msg.type = "progress"
        /\ unstarted[j][Len(unstarted[j])].msg.status = "failed"

-----------------------------------------------------------------------------
(* C33: the "connected" snapshot and the broadcasts that follow it *)

\* One job, its run and one observer, with a note of the record the
\* observer's snapshot was built from
NextSnapshot ==
    \/ DOMAIN jobs = {} /\ ProcessVideo
    \/ \E job_id \in JobIds :
          \/ RunJobBegin(job_id)
          \/ ScriptReturns(job_id)
          \/ ScriptRaises(job_id)
          \/ PromptsReturn(job_id)
          \/ SubmitReturns(job_id)
          \/ PollReturns(job_id)
          \/ PollRaises(job_id)
          \/ BroadcastNoSubscribers(job_id)
          \/ BroadcastStart(job_id)
    \/ \E t \in inflight :
          \/ BroadcastFinish(t)
          \/ BroadcastCrash(t)
    \/ \E w \in FirstObserver :
          \/ \E job_id \in JobIds, accepted \in BOOLEAN :
                WsOpenNoted(w, job_id, accepted)
          \/ WsSnapshotSent(w)
          \/ WsClientCloses(w)
          \/ WsHandlerEnds(w)

SpecSnapshot == Init /\ [][NextSnapshot]_vars

\* The message msg carries a state of the job older than the record rec: an
\* earlier status, or the same status with a lower percent
OlderThan(msg, rec) ==
    \/ StatusRank(msg.status) < StatusRank(rec.status)
    \/ /\ msg.status = rec.status
       /\ msg.type = "progress"
       /\ msg.progress_percent < rec.progress_percent

\* (C33) An observer that connects to a running job is sent no message after
\* its "connected" snapshot that carries a state older than the snapshot:
\* every broadcast that sends to a registered observer, which it does after
\* the snapshot was handed to the same WebSocket, carries the snapshot's
\* state or a later one
C33_NothingOlderThanSnapshot ==
    \A t \in inflight :
        (snapshot[t.cur] # NoneVal /\ ws[t.cur].state # "done") =>
            ~OlderThan(t.msg, TheValue(snapshot[t.cur]))

\* the observer registered after the step of the pipeline that reported the
\* end of the render and completed the job, and before the broadcasts of that
\* step ran: its snapshot says completed, 100 and it is now being sent
\* rendering, 95
C33_Witness ==
    \E t \in inflight :
        /\ snapshot[t.cur] # NoneVal
        /\ ws[t.cur].state \in {"snapshot", "receiving"}
        /\ transport[t.cur] = "open"
        /\ TheValue(snapshot[t.cur]).status = "completed"
        /\ TheValue(snapshot[t.cur]).progress_percent = 100
        /\ t.msg.type = "progress"
        /\ t.msg.status = "rendering"
        /\ t.msg.progress_percent = 95

-----------------------------------------------------------------------------
(* C34: calls with a job id that create_job never returned *)

\* The ids that create_job does not return while a single job is created
UnknownIds == {j \in JobIds : j > 1}

\* job_manager.start_job_async(job_id, process_video_generation, ...) with an
\* id that has no Progress Record
CallStartJobAsync(job_id) ==
    /\ job_id \in UnknownIds
    /\ job_id \notin DOMAIN tasks
    /\ LET step == start_job_async(Stores, job_id)
       IN /\ tasks' = (job_id :> step.task) @@ tasks
          /\ pc' = [pc EXCEPT ![job_id] = step.pc]
    /\ UNCHANGED <<jobs, results, polls, submit, pipelineOutcome, leftTerminal,
                   resultWrites, writeLog, unstarted>>
    /\ UNCHANGED <<envVars, registryVars, inflight>>

\* job_manager.set_result(job_id, error=error) with an id that has no
\* Progress Record
CallSetResult(job_id, error) ==
    /\ job_id \in UnknownIds
    /\ job_id \notin DOMAIN tasks
    /\ job_id \notin DOMAIN results
    /\ LET m == set_result(Stores, job_id, NoFields, error)
       IN /\ jobs' = m.jobs
          /\ results' = m.results
          /\ unstarted' = m.unstarted
          /\ leftTerminal' = m.leftTerminal
          /\ resultWrites' = m.resultWrites
          /\ writeLog' = m.writeLog
    /\ UNCHANGED <<tasks, pc, polls, submit, pipelineOutcome>>
    /\ UNCHANGED <<envVars, registryVars, inflight>>

\* One job created by the request handler, and calls of the orchestrator with
\* another id
NextUnknown ==
    \/ DOMAIN jobs = {} /\ ProcessVideo
    \/ \E job_id \in JobIds :
          \/ RunJobBegin(job_id)
          \/ ScriptReturns(job_id)
          \/ ScriptRaises(job_id)
          \/ PromptsReturn(job_id)
          \/ SubmitReturns(job_id)
          \/ SubmitRaises(job_id)
          \/ PollReturns(job_id)
          \/ PollRaises(job_id)
          \/ BroadcastNoSubscribers(job_id)
          \/ CallStartJobAsync(job_id)
          \/ \E error \in VendorErrors : CallSetResult(job_id, error)

SpecUnknown == Init /\ [][NextUnknown]_vars

\* (C34) Every job id that has a Result Record has a Progress Record,
\* whatever the calls of set_result, run_job and start_job_async, calls with
\* an id that create_job never returned included
C34_ResultHasProgress ==
    \A j \in DOMAIN results : get_job_progress(Stores, j) # NoneVal

\* the pipeline was started with an id that create_job never returned and has
\* run to its end: the id has a completed Result Record and no Progress Record
C34_Witness ==
    \E j \in DOMAIN results :
        /\ get_job_progress(Stores, j) = NoneVal
        /\ j \in DOMAIN tasks
        /\ tasks[j] = "finished"
        /\ results[j].status = "completed"

-----------------------------------------------------------------------------
(* C35: the two maps of the registry *)

\* (C35) After any sequence of connect, disconnect and broadcast the two
\* maps of the registry agree: an observer is in job j's subscriber set
\* exactly when connection_jobs sends it to j, and no job has an empty
\* subscriber set
C35_MapsAgree ==
    /\ \A w \in Observers, j \in JobIds :
          (j \in DOMAIN active_connections /\ w \in active_connections[j])
             <=> (w \in DOMAIN connection_jobs /\ connection_jobs[w] = j)
    /\ \A j \in DOMAIN active_connections : active_connections[j] # {}

\* an observer is in the subscriber set of one job while connection_jobs
\* sends it to another, in whose set it is too
C35_Witness ==
    \E w \in DOMAIN connection_jobs, j \in DOMAIN active_connections :
        /\ connection_jobs[w] # j
        /\ w \in active_connections[j]
        /\ connection_jobs[w] \in DOMAIN active_connections
        /\ w \in active_connections[connection_jobs[w]]

-----------------------------------------------------------------------------
(* C36: whom websocket_endpoint registers, and until when *)

\* (C36) The WebSocket handler registers no observer for a job id that has
\* no Progress Record, and an observer whose handler has ended, because the
\* job was unknown, the client went away or a send raised, is registered no
\* more: it is in neither map of the registry
C36_HandlerRegistration ==
    /\ \A w \in DOMAIN connection_jobs : connection_jobs[w] \in DOMAIN jobs
    /\ \A w \in Observers :
          /\ ws[w].state \in {"snapshot", "receiving"} =>
                ws[w].job \in DOMAIN jobs
          /\ ws[w].state = "done" =>
                /\ w \notin DOMAIN connection_jobs
                /\ \A j \in DOMAIN active_connections :
                      w \notin active_connections[j]

\* the handler of an observer that was registered for a job has ended after
\* its client went away, while the job is still running
C36_Witness ==
    \E w \in Observers :
        /\ ws[w].state = "done"
        /\ transport[w] = "closed"
        /\ ws[w].job \in DOMAIN jobs
        /\ pc[ws[w].job] = "poll"

-----------------------------------------------------------------------------
(* C37: wait_for_completion *)

\* The message of the first broadcast task that the step has created for j
FirstNew(j) == unstarted'[j][1].msg

\* The message heygen_progress_callback(percent, message) gives rise to
CallbackMessage(j, percent, message) ==
    ProgressMessage(j, "rendering", MapPercent(percent), "rendering", message)

-----------------------------------------------------------------------------
(* C38: rejections of the submission *)

\* The answers that reject the request: 401, 404, and a 200 response whose
\* body carries an error or no video_id
Rejections ==
    {"401", "404", "api_error", "error_not_dict", "no_video_id", "data_null"}

\* The orchestrator without observers, the responses that generate_avatar_video
\* sleeps through being noted
NextSubmit ==
    \/ ProcessVideo
    \/ ProcessVideoRejected
    \/ \E job_id \in JobIds :
          \/ RunJobBegin(job_id)
          \/ ScriptReturns(job_id)
          \/ ScriptRaises(job_id)
          \/ PromptsReturn(job_id)
          \/ SubmitReturns(job_id)
          \/ SubmitRaises(job_id)
          \/ SubmitRetriesNoted(job_id)
          \/ PollReturns(job_id)
          \/ PollRaises(job_id)
          \/ BroadcastNoSubscribers(job_id)

SpecSubmit == Init /\ [][NextSubmit]_vars

\* (C38) generate_avatar_video does not retry a rejection: no submission that
\* was answered with 401, with 404, or with a 200 response whose body carries
\* an error or no video_id is followed by a sleep and another submission
C38_RejectionNotRetried ==
    \A j \in JobIds : submit[j].retried \cap Rejections = {}

\* the rejections whose handling reaches a `raise RuntimeError` are not
\* retried, whatever the attempt
C38_RaisedRejectionNotRetried ==
    \A j \in JobIds :
        /\ submit[j].retried \cap (Rejections \ BodyFaults) = {}
        /\ \A response \in Rejections \ BodyFaults :
              submit_attempt(submit[j].attempt, response) =
                 [act |-> "raise", wait_time |-> 0]

\* two 200 responses with "data": null have been slept through, 2 s and 5 s,
\* and the request is being submitted for the third time
C38_Witness ==
    \E j \in JobIds :
        /\ pc[j] = "submit"
        /\ submit[j].retried = {"data_null"}
        /\ submit[j].slept = <<2, 5>>

-----------------------------------------------------------------------------
(* C39: generate_script *)

\* One job without observers, the calls of generate_script being noted
NextScript ==
    \/ DOMAIN jobs = {} /\ ProcessVideo
    \/ ProcessVideoRejected
    \/ \E job_id \in JobIds :
          \/ RunJobBegin(job_id)
          \/ ScriptReturnsNoted(job_id)
          \/ ScriptRaisesNoted(job_id)
          \/ PromptsReturn(job_id)
          \/ SubmitReturns(job_id)
          \/ SubmitRaises(job_id)
          \/ SubmitRetries(job_id)
          \/ PollReturns(job_id)
          \/ PollRaises(job_id)
          \/ BroadcastNoSubscribers(job_id)

SpecScript == Init /\ [][NextScript]_vars

\* The failures of a call that are not authentication errors
NonAuthFailures == LlmAnswers \ {"script", "authentication"}

\* the last answer the call got
LastAnswer(call) == call.answers[Len(call.answers)]

\* The call made at most three calls of the LLM, slept 2 s and then 5 s
\* between them, and ended by returning a non-empty script or by raising
CallIsBounded(call) ==
    /\ Len(call.answers) \in 1 .. 3
    /\ call.slept = SubSeq(<<2, 5>>, 1, Len(call.answers) - 1)
    /\ call.ended \in {"return", "raise"}
    /\ call.ended = "return" <=> LastAnswer(call) = "script"

\* (C39) A call of generate_script calls the LLM at most 3 times, waits 2 s
\* and then 5 s between the calls, retries every failure that is not an
\* authentication error (an empty script included) until the third call has
\* failed, raises at once on an authentication error, and ends by returning a
\* non-empty script or by raising RuntimeError
C39_ScriptRetry ==
    scriptCall # NoCall =>
        /\ CallIsBounded(scriptCall)
        /\ \A k \in 1 .. Len(scriptCall.answers) - 1 :
              scriptCall.answers[k] \in NonAuthFailures
        /\ LastAnswer(scriptCall) \in NonAuthFailures =>
              Len(scriptCall.answers) = script_max_retries

\* what holds of every call: the bound on the calls, the waits, the two ways
\* of ending, no retry of an authentication error, and the retry of a rate
\* limit and of an empty script
C39_BoundedCalls ==
    scriptCall # NoCall =>
        /\ CallIsBounded(scriptCall)
        /\ \A k \in 1 .. Len(scriptCall.answers) - 1 :
              scriptCall.answers[k] \in NonAuthFailures
        /\ LastAnswer(scriptCall) \in {"rate_limit", "empty_script"} =>
              Len(scriptCall.answers) = script_max_retries

\* the first call of the LLM met a status 500 and generate_script raised
\* without a second call; the job has failed
C39_Witness ==
    /\ scriptCall =
          [ended |-> "raise", answers |-> <<"server_error">>, slept |-> <<>>]
    /\ \E j \in DOMAIN results : results[j].status = "failed"

====
